---------------------------- MODULE Spec2Model ----------------------------
(***************************************************************************)
(* A model of gbkf-core-python: GBKFCore.py (layout and type tables),      *)
(* GBKFCoreWriter.py (the writer) and GBKFCoreReader.py (the reader).      *)
(*                                                                         *)
(* Representation of Python values                                         *)
(*   int    a record [neg, mag]: the sign and the magnitude as base-256    *)
(*          digits, least significant first, without leading zero digits.  *)
(*          Python integers are unbounded and the format's fields reach    *)
(*          2^64 - 1, so the digits are kept, not a machine word.          *)
(*   bytes  a sequence of numbers in 0..255.                               *)
(*   str    a sequence of code points.                                     *)
(*   float  a record [s, e, m]: the fields of the IEEE-754 binary64 value  *)
(*          (sign, biased exponent, the 52 fraction bits, first bit most   *)
(*          significant).                                                  *)
(*   a call that may raise returns a record [exc, val]: exc is "None" or   *)
(*          the name of the exception class, val the returned value.       *)
(***************************************************************************)
EXTENDS Integers, Sequences, FiniteSets, TLC

\* The fields of the records of this module.  Every record lists its fields
\* in this order, the order TLC keeps them in.
FieldOrder ==
    [byte_buffer |-> 1, bytes_data |-> 2, exc |-> 3, exists |-> 4,
     data |-> 5, gbkf_version |-> 6, gkbf_version |-> 7, kind |-> 8,
     layout |-> 9, name |-> 10, neg |-> 11, mag |-> 12, none |-> 13,
     op |-> 14, key |-> 15, key_pos |-> 16, instance_id |-> 17,
     instance_id_pos |-> 18, s |-> 19, e |-> 20, m |-> 21, self |-> 22,
     file |-> 23, size |-> 24, signed |-> 25, specification_id |-> 26,
     specification_version |-> 27, keys_size |-> 28, keyed_values_nb |-> 29,
     keys |-> 30, sha256_read |-> 31, sha256_calculated |-> 32, type |-> 33,
     val |-> 34, value |-> 35, values |-> 36, values_number |-> 37,
     values_number_pos |-> 38, value_type |-> 39, value_type_pos |-> 40,
     current_pos |-> 41, writes |-> 42, header |-> 43, entries |-> 44,
     auto_update |-> 45, add_footer |-> 46, before |-> 47, body |-> 48,
     tamper |-> 49, at |-> 50, count |-> 51, previous |-> 52]

(***************************************************************************)
(* Sequences with Python's slicing.                                        *)
(***************************************************************************)
Min(a, b) == IF a <= b THEN a ELSE b

Max(a, b) == IF a >= b THEN a ELSE b

\* s[start:end] for 0-based, non-negative start and end (clamped to len(s)).
Slice(s, start, end) ==
    LET lo == Min(start, Len(s))
        hi == Min(end, Len(s))
    IN  IF hi <= lo THEN <<>> ELSE [i \in 1..(hi - lo) |-> s[lo + i]]

\* s[-n:] : the last n elements, the whole of s when it is shorter.
LastN(s, n) == Slice(s, Max(Len(s) - n, 0), Len(s))

\* s[:-n] : all but the last n elements, empty when s is shorter.
DropLastN(s, n) == Slice(s, 0, Max(Len(s) - n, 0))

Reverse(s) == [i \in 1..Len(s) |-> s[Len(s) + 1 - i]]

Repeat(x, n) == [i \in 1..n |-> x]

(***************************************************************************)
(* Python int.                                                             *)
(***************************************************************************)
RECURSIVE StripZeros(_)
StripZeros(mag) ==
    IF mag = <<>> THEN <<>>
    ELSE IF mag[Len(mag)] = 0 THEN StripZeros(SubSeq(mag, 1, Len(mag) - 1))
    ELSE mag

MkInt(neg, mag) ==
    LET m == StripZeros(mag)
    IN  [neg |-> (neg /\ m # <<>>), mag |-> m]

RECURSIVE NatMag(_)
NatMag(n) == IF n = 0 THEN <<>> ELSE <<n % 256>> \o NatMag(n \div 256)

\* The Python int of a TLA+ integer (|n| < 2^31).
PyInt(n) == IF n < 0 THEN MkInt(TRUE, NatMag(-n)) ELSE MkInt(FALSE, NatMag(n))

RECURSIVE MagNat(_)
MagNat(mag) == IF mag = <<>> THEN 0 ELSE mag[1] + 256 * MagNat(Tail(mag))

\* The TLA+ integer of a Python int below 2^24 in magnitude.
ToNat(v) == IF v.neg THEN 0 - MagNat(v.mag) ELSE MagNat(v.mag)

\* mag * 10 + carry, on base-256 digits.
RECURSIVE MagMul10Add(_, _)
MagMul10Add(mag, carry) ==
    IF mag = <<>>
    THEN (IF carry = 0 THEN <<>> ELSE <<carry>>)
    ELSE LET t == mag[1] * 10 + carry
         IN  <<t % 256>> \o MagMul10Add(Tail(mag), t \div 256)

RECURSIVE DecMag(_, _)
DecMag(digits, acc) ==
    IF digits = <<>> THEN acc
    ELSE DecMag(Tail(digits), MagMul10Add(acc, Head(digits)))

\* The int written with these decimal digits: Dec(<<2, 5, 6>>) is 256.
Dec(digits) == MkInt(FALSE, DecMag(digits, <<>>))

Neg(v) == MkInt(~v.neg, v.mag)

\* a < b on magnitudes.
RECURSIVE MagLess(_, _)
MagLess(a, b) ==
    IF Len(a) # Len(b) THEN Len(a) < Len(b)
    ELSE IF a = <<>> THEN FALSE
    ELSE IF a[Len(a)] # b[Len(b)] THEN a[Len(a)] < b[Len(b)]
    ELSE MagLess(SubSeq(a, 1, Len(a) - 1), SubSeq(b, 1, Len(b) - 1))

\* a < b and a > b on Python ints.
IntLess(a, b) ==
    IF a.neg /\ ~b.neg THEN TRUE
    ELSE IF ~a.neg /\ b.neg THEN FALSE
    ELSE IF a.neg THEN MagLess(b.mag, a.mag)
    ELSE MagLess(a.mag, b.mag)

IntGreater(a, b) == IntLess(b, a)

\* 2^(8*size) - mag for 0 < mag <= 2^(8*size): the two's complement digits.
RECURSIVE MagIncrement(_)
MagIncrement(mag) ==
    IF mag = <<>> THEN <<1>>
    ELSE IF mag[1] < 255 THEN <<mag[1] + 1>> \o Tail(mag)
    ELSE <<0>> \o MagIncrement(Tail(mag))

TwosComplement(mag, size) ==
    LET padded == mag \o Repeat(0, size - Len(mag))
        flipped == [i \in 1..size |-> 255 - padded[i]]
    IN  SubSeq(MagIncrement(flipped), 1, size)

\* Whether the int fits `size` bytes, as int.to_bytes decides it.
FitsBytes(v, size, signed) ==
    IF ~signed THEN ~v.neg /\ Len(v.mag) <= size
    ELSE IF ~v.neg
         THEN Len(v.mag) < size \/ (Len(v.mag) = size /\ v.mag[size] < 128)
         ELSE \/ Len(v.mag) < size
              \/ /\ Len(v.mag) = size
                 /\ MagLess(v.mag, Repeat(0, size - 1) \o <<128>>)
              \/ v.mag = Repeat(0, size - 1) \o <<128>>

\* int.to_bytes(size, byteorder, signed): OverflowError when it does not fit.
to_bytes(v, size, byteorder, signed) ==
    IF ~FitsBytes(v, size, signed) THEN [exc |-> "OverflowError", val |-> <<>>]
    ELSE LET little == IF v.neg THEN TwosComplement(v.mag, size)
                       ELSE v.mag \o Repeat(0, size - Len(v.mag))
         IN  [exc |-> "None",
              val |-> IF byteorder = "little" THEN little ELSE Reverse(little)]

\* int.from_bytes(bytes, byteorder, signed); b"" gives 0.
from_bytes(bytes, byteorder, signed) ==
    LET little == IF byteorder = "little" THEN bytes ELSE Reverse(bytes)
        n == Len(little)
    IN  IF signed /\ n > 0 /\ little[n] >= 128
        THEN MkInt(TRUE, TwosComplement(little, n))
        ELSE MkInt(FALSE, little)

(***************************************************************************)
(* Python float (IEEE-754 binary64) and struct's '>f' and '>d' formats.    *)
(***************************************************************************)
RECURSIVE NatBits(_, _)
\* n on w bits, most significant first.
NatBits(n, w) == IF w = 0 THEN <<>> ELSE NatBits(n \div 2, w - 1) \o <<n % 2>>

RECURSIVE BitsNat(_)
BitsNat(bits) ==
    IF bits = <<>> THEN 0
    ELSE 2 * BitsNat(SubSeq(bits, 1, Len(bits) - 1)) + bits[Len(bits)]

BitsOfBytes(bytes) ==
    [i \in 1..(8 * Len(bytes)) |-> NatBits(bytes[((i - 1) \div 8) + 1], 8)[((i - 1) % 8) + 1]]

BytesOfBits(bits) ==
    [i \in 1..(Len(bits) \div 8) |-> BitsNat(SubSeq(bits, 8 * i - 7, 8 * i))]

AllZero(bits) == \A i \in 1..Len(bits) : bits[i] = 0

\* a < b on bit strings of one length.
RECURSIVE BitsLess(_, _)
BitsLess(a, b) ==
    IF a = <<>> THEN FALSE
    ELSE IF Head(a) # Head(b) THEN Head(a) < Head(b)
    ELSE BitsLess(Tail(a), Tail(b))

Float(s, e, m) == [s |-> s, e |-> e, m |-> m]

IsNaN(v) == v.e = 2047 /\ ~AllZero(v.m)

IsZero(v) == v.e = 0 /\ AllZero(v.m)

\* |a| < |b| for two floats that are not NaN.
FloatMagLess(a, b) == IF a.e # b.e THEN a.e < b.e ELSE BitsLess(a.m, b.m)

\* a > b on Python floats: False as soon as one of them is NaN.
FloatGreater(a, b) ==
    IF IsNaN(a) \/ IsNaN(b) THEN FALSE
    ELSE IF IsZero(a) /\ IsZero(b) THEN FALSE
    ELSE IF a.s = 0 /\ b.s = 1 THEN TRUE
    ELSE IF a.s = 1 /\ b.s = 0 THEN FALSE
    ELSE IF a.s = 0 THEN FloatMagLess(b, a)
    ELSE FloatMagLess(a, b)

\* struct.pack('>d', v): the eight bytes of the binary64, sign byte first.
pack_double(v) ==
    [exc |-> "None", val |-> BytesOfBits(<<v.s>> \o NatBits(v.e, 11) \o v.m)]

\* struct.unpack('>d', bytes)[0]: struct.error unless there are 8 bytes.
unpack_double(bytes) ==
    IF Len(bytes) # 8 THEN [exc |-> "struct.error", val |-> <<>>]
    ELSE LET bits == BitsOfBytes(bytes)
         IN  [exc |-> "None",
              val |-> Float(bits[1], BitsNat(SubSeq(bits, 2, 12)), SubSeq(bits, 13, 64))]

\* Round-half-even of the bit string `sig` to its first 24 bits, as a number.
RoundTo24(sig) ==
    LET kept == SubSeq(sig, 1, 24)
        rest == SubSeq(sig, 25, Len(sig))
        up == /\ rest # <<>>
              /\ rest[1] = 1
              /\ (~AllZero(Tail(rest)) \/ kept[24] = 1)
    IN  BitsNat(kept) + (IF up THEN 1 ELSE 0)

\* struct.pack('>f', v): the binary64 rounded to binary32 (C's (float)x), and
\* OverflowError when a finite value rounds to infinity.
pack_single(v) ==
    LET e32 == v.e - 1023 + 127
        shift == 1 - e32
        r == IF v.e = 0 \/ shift > 25 THEN 0
             ELSE IF e32 >= 1
             THEN (e32 - 1) * 8388608 + RoundTo24(<<1>> \o v.m)
             ELSE RoundTo24(Repeat(0, shift) \o <<1>> \o v.m)
    IN  IF v.e = 2047
        THEN [exc |-> "None",
              val |-> BytesOfBits(<<v.s>> \o NatBits(255, 8) \o
                        (IF AllZero(v.m) THEN Repeat(0, 23)
                         ELSE <<1>> \o SubSeq(v.m, 2, 23)))]
        ELSE IF e32 >= 255 \/ r >= 255 * 8388608
        THEN [exc |-> "OverflowError", val |-> <<>>]
        ELSE [exc |-> "None", val |-> BytesOfBits(<<v.s>> \o NatBits(r, 31))]

\* The position of the first 1 of a bit string that has one.
RECURSIVE FirstOne(_)
FirstOne(bits) == IF Head(bits) = 1 THEN 1 ELSE 1 + FirstOne(Tail(bits))

\* struct.unpack('>f', bytes)[0]: the binary32 widened to binary64 (exact),
\* and struct.error unless there are 4 bytes.
unpack_single(bytes) ==
    IF Len(bytes) # 4 THEN [exc |-> "struct.error", val |-> <<>>]
    ELSE LET bits == BitsOfBytes(bytes)
             s == bits[1]
             e32 == BitsNat(SubSeq(bits, 2, 9))
             m32 == SubSeq(bits, 10, 32)
             k == FirstOne(m32)
         IN  [exc |-> "None",
              val |-> IF e32 = 255
                      THEN (IF AllZero(m32) THEN Float(s, 2047, Repeat(0, 52))
                            ELSE Float(s, 2047, <<1>> \o SubSeq(m32, 2, 23) \o Repeat(0, 29)))
                      ELSE IF e32 = 0
                      THEN (IF AllZero(m32) THEN Float(s, 0, Repeat(0, 52))
                            ELSE Float(s, 1023 - 126 - k,
                                       SubSeq(m32, k + 1, 23) \o Repeat(0, 29 + k)))
                      ELSE Float(s, e32 - 127 + 1023, m32 \o Repeat(0, 29))]

\* The 52 fraction bits written as 13 hexadecimal digits.
HexBits(nibbles) ==
    [i \in 1..(4 * Len(nibbles)) |-> NatBits(nibbles[((i - 1) \div 4) + 1], 4)[((i - 1) % 4) + 1]]

(***************************************************************************)
(* hashlib.sha256(data).digest().  The digest is library code and the      *)
(* claims treat it as collision-free; it is modelled by a 32-byte          *)
(* checksum of the same shape: byte i depends on the length and on every   *)
(* byte of the data with its position, and a change of one byte of the     *)
(* data always changes byte 1 (the plain sum of the bytes modulo 256).     *)
(***************************************************************************)
\* The sum over lo..hi of data[j] * (1 + w * j), modulo 256.
RECURSIVE WeightedSum(_, _, _, _)
WeightedSum(data, lo, hi, w) ==
    IF lo > hi THEN 0
    ELSE IF lo = hi THEN (data[lo] * (1 + w * lo)) % 256
    ELSE LET mid == (lo + hi) \div 2
         IN  (WeightedSum(data, lo, mid, w) + WeightedSum(data, mid + 1, hi, w)) % 256

\* Byte 1 is the sum of data[j], byte i > 1 is 106 + 9 * i + 31 * len(data) plus
\* the sum of data[j] * (1 + i * j), all modulo 256.
sha256(data) ==
    LET sum == WeightedSum(data, 1, Len(data), 0)
        moment == (WeightedSum(data, 1, Len(data), 1) + 256 - sum) % 256
    IN  [i \in 1..32 |->
            IF i = 1 THEN sum
            ELSE (106 + 9 * i + 31 * Len(data) + sum + i * moment) % 256]

(***************************************************************************)
(* GBKFCore.Header: the layout of the fixed header.                        *)
(***************************************************************************)
GBKF_KEYWORD == <<103, 98, 107, 102>>

GBKF_KEYWORD_SIZE == 4

GBKF_VERSION_START == GBKF_KEYWORD_SIZE

GBKF_VERSION_SIZE == 1

SPECIFICATION_ID_START == GBKF_VERSION_START + GBKF_VERSION_SIZE

SPECIFICATION_SIZE == 4

SPECIFICATION_VERSION_START == SPECIFICATION_ID_START + SPECIFICATION_SIZE

SPECIFICATION_VERSION_SIZE == 2

KEYS_SIZE_START == SPECIFICATION_VERSION_START + SPECIFICATION_VERSION_SIZE

KEYS_SIZE_SIZE == 1

KEYED_VALUES_NB_START == KEYS_SIZE_START + KEYS_SIZE_SIZE

KEYED_VALUES_NB_SIZE == 4

HEADER_SIZE == KEYED_VALUES_NB_START + KEYED_VALUES_NB_SIZE

(***************************************************************************)
(* GBKFCore.ValueType: the type tags.                                      *)
(***************************************************************************)
BLOB == 1

BOOLEAN_TAG == 2

STRING_TAG == 10

INT8 == 20

INT32 == 21

INT16 == 22

INT64 == 23

UINT8 == 30

UINT16 == 31

UINT32 == 33

UINT64 == 34

FLOAT32 == 40

FLOAT64 == 41

\* The members of the enumeration: ValueType(n) raises ValueError for any other n.
ValueType ==
    {BLOB, BOOLEAN_TAG, STRING_TAG, INT8, INT32, INT16, INT64,
     UINT8, UINT16, UINT32, UINT64, FLOAT32, FLOAT64}

(***************************************************************************)
(* GBKFCore.ValueTypeBoundaries.                                           *)
(***************************************************************************)
uint_8_max == Dec(<<2, 5, 5>>)

uint_16_max == Dec(<<6, 5, 5, 3, 5>>)

uint_32_max == Dec(<<4, 2, 9, 4, 9, 6, 7, 2, 9, 5>>)

uint_64_max == Dec(<<1, 8, 4, 4, 6, 7, 4, 4, 0, 7, 3, 7, 0, 9, 5, 5, 1, 6, 1, 5>>)

int_8_min == Neg(Dec(<<1, 2, 8>>))

int_8_max == Dec(<<1, 2, 7>>)

int_16_min == Neg(Dec(<<3, 2, 7, 6, 8>>))

int_16_max == Dec(<<3, 2, 7, 6, 7>>)

int_32_min == Neg(Dec(<<2, 1, 4, 7, 4, 8, 3, 6, 4, 8>>))

int_32_max == Dec(<<2, 1, 4, 7, 4, 8, 3, 6, 4, 7>>)

int_64_min == Neg(Dec(<<9, 2, 2, 3, 3, 7, 2, 0, 3, 6, 8, 5, 4, 7, 7, 5, 8, 0, 8>>))

int_64_max == Dec(<<9, 2, 2, 3, 3, 7, 2, 0, 3, 6, 8, 5, 4, 7, 7, 5, 8, 0, 7>>)

single_size == 4

\* 3.4028235e+38 is the binary64 0x1.fffffe54daff8p+127.
single_max == Float(0, 127 + 1023, HexBits(<<15, 15, 15, 15, 15, 14, 5, 4, 13, 10, 15, 15, 8>>))

double_size == 8

\* 1.7976931348623157e+308 is the binary64 0x1.fffffffffffffp+1023.
double_max == Float(0, 1023 + 1023, HexBits(<<15, 15, 15, 15, 15, 15, 15, 15, 15, 15, 15, 15, 15>>))

sha256_size == 32

(***************************************************************************)
(* Calls that may raise.                                                   *)
(***************************************************************************)
Ok(v) == [exc |-> "None", val |-> v]

Raise(e) == [exc |-> e, val |-> <<>>]

\* r, then F on what r returned: an exception of r leaves F uncalled.
Bind(r, F(_)) == IF r.exc # "None" THEN Raise(r.exc) ELSE F(r.val)

\* The outcome of a method that changes its object: val is the object as the
\* method leaves it, when it returns and when it raises.  LeftAs is for a
\* method that raises before it has assigned anything; Then is a call on the
\* object after another one, which an exception of the first leaves uncalled.
LeftAs(self, r) == IF r.exc # "None" THEN [exc |-> r.exc, val |-> self] ELSE r

Then(r, F(_)) == IF r.exc # "None" THEN r ELSE F(r.val)

\* Python's None.
None == [none |-> TRUE]

\* verify_int without the test of the greatest value.
verify_int_min_only(value, min_value, max_value) ==
    IF IntLess(value, min_value) THEN Raise("ValueError")
    ELSE Ok(None)

(***************************************************************************)
(* GBKFCoreWriter.py.  `self` is the record of the writer's fields:        *)
(* byte_buffer, keys_size, keyed_values_nb, keys.                          *)
(***************************************************************************)
verify_int(value, min_value, max_value) ==
    IF IntLess(value, min_value) THEN Raise("ValueError")
    ELSE IF IntGreater(value, max_value) THEN Raise("ValueError")
    ELSE Ok(None)

\* get_int_boundary giving the unsigned maximum for a signed type too.
get_int_boundary_unsigned_max(length, signed, minimum) ==
    IF length \notin {1, 2, 4, 8} \/ (~signed /\ minimum) THEN Raise("ValueError")
    ELSE IF ~minimum
    THEN Ok(CASE length = 1 -> uint_8_max
              [] length = 2 -> uint_16_max
              [] length = 4 -> uint_32_max
              [] length = 8 -> uint_64_max)
    ELSE Ok(CASE length = 1 -> int_8_min
              [] length = 2 -> int_16_min
              [] length = 4 -> int_32_min
              [] length = 8 -> int_64_min)

get_int_boundary(length, signed, minimum) ==
    IF length \notin {1, 2, 4, 8} \/ (~signed /\ minimum) THEN Raise("ValueError")
    ELSE IF ~signed
    THEN Ok(CASE length = 1 -> uint_8_max
              [] length = 2 -> uint_16_max
              [] length = 4 -> uint_32_max
              [] length = 8 -> uint_64_max)
    ELSE IF ~minimum
    THEN Ok(CASE length = 1 -> int_8_max
              [] length = 2 -> int_16_max
              [] length = 4 -> int_32_max
              [] length = 8 -> int_64_max)
    ELSE Ok(CASE length = 1 -> int_8_min
              [] length = 2 -> int_16_min
              [] length = 4 -> int_32_min
              [] length = 8 -> int_64_min)

\* byte_buffer[start_pos:start_pos + length] = binary_value
SetSlice(buffer, start_pos, length, binary_value) ==
    Slice(buffer, 0, start_pos) \o binary_value
        \o Slice(buffer, start_pos + length, Len(buffer))

set_integer(self, value, min_value, max_value, start_pos, length) ==
    LeftAs(self,
        Bind(verify_int(value, min_value, max_value), LAMBDA u :
        Bind(to_bytes(value, length, "little", FALSE), LAMBDA binary_value :
        Ok([self EXCEPT !.byte_buffer = SetSlice(@, start_pos, length, binary_value)]))))

set_gbkf_version(self, uint8) ==
    set_integer(self, uint8, PyInt(0), uint_8_max, GBKF_VERSION_START, GBKF_VERSION_SIZE)

set_specification_id(self, uint32) ==
    set_integer(self, uint32, PyInt(0), uint_32_max,
                SPECIFICATION_ID_START, SPECIFICATION_SIZE)

set_specification_version(self, uint16) ==
    set_integer(self, uint16, PyInt(0), uint_16_max,
                SPECIFICATION_VERSION_START, SPECIFICATION_VERSION_SIZE)

\* set_keys_size without the test of the keys already seen.
set_keys_size_unchecked(self, uint8) ==
    Then(set_integer(self, uint8, PyInt(1), uint_8_max,
                     KEYS_SIZE_START, KEYS_SIZE_SIZE), LAMBDA s1 :
    Ok([s1 EXCEPT !.keys_size = uint8]))

\* set_keys_size keeping the size before it sets the byte of the header.
set_keys_size_kept_first(self, uint8) ==
    IF \E i \in 1..Len(self.keys) : PyInt(Len(self.keys[i])) # uint8
    THEN LeftAs(self, Raise("ValueError"))
    ELSE set_integer([self EXCEPT !.keys_size = uint8], uint8, PyInt(1), uint_8_max,
                     KEYS_SIZE_START, KEYS_SIZE_SIZE)

set_keys_size(self, uint8) ==
    IF \E i \in 1..Len(self.keys) : PyInt(Len(self.keys[i])) # uint8
    THEN LeftAs(self, Raise("ValueError"))
    ELSE Then(set_integer(self, uint8, PyInt(1), uint_8_max,
                          KEYS_SIZE_START, KEYS_SIZE_SIZE), LAMBDA s1 :
         Ok([s1 EXCEPT !.keys_size = uint8]))

set_keyed_values_nb(self, uint3) ==
    set_integer(self, uint3, PyInt(0), uint_32_max,
                KEYED_VALUES_NB_START, KEYED_VALUES_NB_SIZE)

\* set_keyed_values_nb_auto counting the keys seen, not the entries.
set_keyed_values_nb_auto_per_key(self) == set_keyed_values_nb(self, PyInt(Len(self.keys)))

set_keyed_values_nb_auto(self) == set_keyed_values_nb(self, self.keyed_values_nb)

\* The defaults of the setters' parameters.
DefaultGbkfVersion == 1

DefaultSpecificationId == 0

DefaultSpecificationVersion == 0

DefaultKeysSize == 1

DefaultKeyedValuesNb == 0

\* reset() that keeps the list of the keys seen.
reset_keeping_keys(self) ==
    LET s0 == [byte_buffer |-> SetSlice(Repeat(0, HEADER_SIZE), 0,
                                        GBKF_KEYWORD_SIZE, GBKF_KEYWORD),
               keys_size |-> PyInt(1),
               keyed_values_nb |-> PyInt(0),
               keys |-> self.keys]
    IN  Then(set_gbkf_version(s0, PyInt(DefaultGbkfVersion)), LAMBDA s1 :
        Then(set_specification_id(s1, PyInt(DefaultSpecificationId)), LAMBDA s2 :
        Then(set_specification_version(s2, PyInt(DefaultSpecificationVersion)), LAMBDA s3 :
        Then(set_keys_size(s3, PyInt(DefaultKeysSize)), LAMBDA s4 :
        set_keyed_values_nb(s4, PyInt(DefaultKeyedValuesNb))))))

reset(self) ==
    LET s0 == [byte_buffer |-> SetSlice(Repeat(0, HEADER_SIZE), 0,
                                        GBKF_KEYWORD_SIZE, GBKF_KEYWORD),
               keys_size |-> PyInt(1),
               keyed_values_nb |-> PyInt(0),
               keys |-> <<>>]
    IN  Then(set_gbkf_version(s0, PyInt(DefaultGbkfVersion)), LAMBDA s1 :
        Then(set_specification_id(s1, PyInt(DefaultSpecificationId)), LAMBDA s2 :
        Then(set_specification_version(s2, PyInt(DefaultSpecificationVersion)), LAMBDA s3 :
        Then(set_keys_size(s3, PyInt(DefaultKeysSize)), LAMBDA s4 :
        set_keyed_values_nb(s4, PyInt(DefaultKeyedValuesNb))))))

\* GBKFCoreWriter(): the fields are set, then reset() is called.
NewWriter == reset([byte_buffer |-> None, keys_size |-> PyInt(1),
                    keyed_values_nb |-> PyInt(0), keys |-> <<>>]).val

\* key.encode('ascii'): UnicodeEncodeError (a ValueError) on a code point over 127.
encode_ascii(str) ==
    IF \E i \in 1..Len(str) : str[i] > 127 THEN Raise("UnicodeEncodeError")
    ELSE Ok(str)

\* __format_key without the comparison of the length with keys_size.
format_key_any_length(self, key) ==
    IF key = <<>> THEN Raise("ValueError")
    ELSE encode_ascii(key)

format_key(self, key) ==
    IF key = <<>> THEN Raise("ValueError")
    ELSE IF PyInt(Len(key)) # self.keys_size THEN Raise("ValueError")
    ELSE encode_ascii(key)

format_integer(value, size, signed) ==
    LET below ==
            IF signed
            THEN Bind(get_int_boundary(size, signed, TRUE), LAMBDA b :
                 IF IntLess(value, b) THEN Raise("ValueError") ELSE Ok(None))
            ELSE IF IntLess(value, PyInt(0)) THEN Raise("ValueError")
            ELSE Ok(None)
    IN  Bind(below, LAMBDA u :
        Bind(get_int_boundary(size, signed, FALSE), LAMBDA b :
        IF IntGreater(value, b) THEN Raise("ValueError")
        ELSE to_bytes(value, size, "little", signed)))

format_single(value) ==
    IF FloatGreater(value, single_max) THEN Raise("ValueError")
    ELSE pack_single(value)

\* __format_double refusing a magnitude above the maximum: abs(value) > max.
format_double_magnitude(value) ==
    IF FloatGreater(Float(0, value.e, value.m), double_max) THEN Raise("ValueError")
    ELSE pack_double(value)

format_double(value) ==
    IF FloatGreater(value, double_max) THEN Raise("ValueError")
    ELSE pack_double(value)

get_keyed_values_header(self, key, instance_id, values_nb, values_type) ==
    IF values_type \notin ValueType THEN Raise("ValueError")
    ELSE Bind(format_key(self, key), LAMBDA b1 :
         Bind(format_integer(instance_id, 4, FALSE), LAMBDA b2 :
         Bind(format_integer(PyInt(values_type), 1, FALSE), LAMBDA b3 :
         Bind(format_integer(PyInt(values_nb), 4, FALSE), LAMBDA b4 :
         Ok(b1 \o b2 \o b3 \o b4)))))

\* The formatter a loop of add_keyed_values_* applies to each value.
FormatValue(format, value) ==
    CASE format.name = "format_integer" -> format_integer(value, format.size, format.signed)
      [] format.name = "format_single" -> format_single(value)
      [] format.name = "format_double" -> format_double(value)

\* line_bytes += format(value) for each value in turn; the first exception ends it.
RECURSIVE FormatValues(_, _, _)
FormatValues(line_bytes, values, format) ==
    IF values = <<>> THEN Ok(line_bytes)
    ELSE LET b == FormatValue(format, Head(values))
         IN  IF b.exc # "None" THEN Raise(b.exc)
             ELSE FormatValues(line_bytes \o b.val, Tail(values), format)

\* The end of an add_keyed_values_* that puts the entry before the entries the
\* buffer holds, right after the header.
AppendLine_after_header(self, key, line_bytes) ==
    [self EXCEPT !.byte_buffer = Slice(@, 0, HEADER_SIZE) \o line_bytes
                                    \o Slice(@, HEADER_SIZE, Len(@)),
                 !.keyed_values_nb = MkInt(FALSE, MagIncrement(@.mag)),
                 !.keys = IF \E i \in 1..Len(@) : @[i] = key THEN @
                          ELSE Append(@, key)]

\* The end of every add_keyed_values_*: the buffer, the counter and the keys.
AppendLine(self, key, line_bytes) ==
    [self EXCEPT !.byte_buffer = @ \o line_bytes,
                 !.keyed_values_nb = MkInt(FALSE, MagIncrement(@.mag)),
                 !.keys = IF \E i \in 1..Len(@) : @[i] = key THEN @
                          ELSE Append(@, key)]

IntegersSize(integer_type) ==
    IF integer_type \in {UINT8, INT8} THEN Ok(1)
    ELSE IF integer_type \in {UINT16, INT16} THEN Ok(2)
    ELSE IF integer_type \in {UINT32, INT32} THEN Ok(4)
    ELSE IF integer_type \in {UINT64, INT64} THEN Ok(8)
    ELSE Raise("ValueError")

\* __add_keyed_values_integer extending the buffer as it goes: the header of
\* the entry is in the buffer before the values are formatted.
add_keyed_values_integer_streaming(self, key, instance_id, integers, integer_type, signed) ==
    LET h == get_keyed_values_header(self, key, instance_id, Len(integers), integer_type)
        s1 == [self EXCEPT !.byte_buffer = @ \o h.val]
    IN  IF h.exc # "None" THEN LeftAs(self, h)
        ELSE LeftAs(s1,
                Bind(IntegersSize(integer_type), LAMBDA integers_size :
                Bind(FormatValues(h.val, integers,
                                  [name |-> "format_integer", size |-> integers_size,
                                   signed |-> signed]),
                     LAMBDA line_bytes :
                Ok(AppendLine(self, key, line_bytes)))))

\* The buffer, the counter and the keys are assigned after the last call that
\* can raise.
add_keyed_values_integer(self, key, instance_id, integers, integer_type, signed) ==
    LeftAs(self,
        Bind(get_keyed_values_header(self, key, instance_id, Len(integers), integer_type),
             LAMBDA header :
        Bind(IntegersSize(integer_type), LAMBDA integers_size :
        Bind(FormatValues(header, integers,
                          [name |-> "format_integer", size |-> integers_size,
                           signed |-> signed]),
             LAMBDA line_bytes :
        Ok(AppendLine(self, key, line_bytes))))))

add_keyed_values_int8(self, key, instance_id, integers) ==
    add_keyed_values_integer(self, key, instance_id, integers, INT8, TRUE)

add_keyed_values_int16(self, key, instance_id, integers) ==
    add_keyed_values_integer(self, key, instance_id, integers, INT16, TRUE)

add_keyed_values_int32(self, key, instance_id, integers) ==
    add_keyed_values_integer(self, key, instance_id, integers, INT32, TRUE)

add_keyed_values_int64(self, key, instance_id, integers) ==
    add_keyed_values_integer(self, key, instance_id, integers, INT64, TRUE)

add_keyed_values_uint8(self, key, instance_id, integers) ==
    add_keyed_values_integer(self, key, instance_id, integers, UINT8, FALSE)

add_keyed_values_uint16(self, key, instance_id, integers) ==
    add_keyed_values_integer(self, key, instance_id, integers, UINT16, FALSE)

add_keyed_values_uint32(self, key, instance_id, integers) ==
    add_keyed_values_integer(self, key, instance_id, integers, UINT32, FALSE)

add_keyed_values_uint64(self, key, instance_id, integers) ==
    add_keyed_values_integer(self, key, instance_id, integers, UINT64, FALSE)

add_keyed_values_float32(self, key, instance_id, singles) ==
    LeftAs(self,
        Bind(get_keyed_values_header(self, key, instance_id, Len(singles), FLOAT32),
             LAMBDA header :
        Bind(FormatValues(header, singles, [name |-> "format_single"]), LAMBDA line_bytes :
        Ok(AppendLine(self, key, line_bytes)))))

add_keyed_values_float64(self, key, instance_id, doubles) ==
    LeftAs(self,
        Bind(get_keyed_values_header(self, key, instance_id, Len(doubles), FLOAT64),
             LAMBDA header :
        Bind(FormatValues(header, doubles, [name |-> "format_double"]), LAMBDA line_bytes :
        Ok(AppendLine(self, key, line_bytes)))))

\* The add_keyed_values_<type> method of a type tag.
add_keyed_values(self, type, key, instance_id, values) ==
    CASE type = INT8 -> add_keyed_values_int8(self, key, instance_id, values)
      [] type = INT16 -> add_keyed_values_int16(self, key, instance_id, values)
      [] type = INT32 -> add_keyed_values_int32(self, key, instance_id, values)
      [] type = INT64 -> add_keyed_values_int64(self, key, instance_id, values)
      [] type = UINT8 -> add_keyed_values_uint8(self, key, instance_id, values)
      [] type = UINT16 -> add_keyed_values_uint16(self, key, instance_id, values)
      [] type = UINT32 -> add_keyed_values_uint32(self, key, instance_id, values)
      [] type = UINT64 -> add_keyed_values_uint64(self, key, instance_id, values)
      [] type = FLOAT32 -> add_keyed_values_float32(self, key, instance_id, values)
      [] type = FLOAT64 -> add_keyed_values_float64(self, key, instance_id, values)

\* The file at a path: absent, or its bytes.
NoFile == [exists |-> FALSE]

FileOf(data) == [exists |-> TRUE, data |-> data]

\* The statements of write, in their order.
\* if auto_update: self.set_keyed_values_nb_auto()
write_update(self, auto_update) ==
    IF auto_update THEN set_keyed_values_nb_auto(self) ELSE Ok(self)

\* open(write_path, "wb"): the file is there and holds nothing.
write_open == FileOf(<<>>)

\* f.write(self.__byte_buffer), and the end of the with block.
write_emit(self, f) == FileOf(f.data \o self.byte_buffer)

\* The footer put by an open(write_path, "wb"): the digest takes the place of
\* the body.
write_footer_truncating(self, f) == FileOf(sha256(self.byte_buffer))

\* with open(write_path, "ab") as f: f.write(sha256(self.__byte_buffer).digest())
write_footer(self, f) == FileOf(f.data \o sha256(self.byte_buffer))

\* write(write_path, auto_update, add_footer): the writer after the call and
\* the file it leaves at the path (NoFile: the path was not opened).
\* write keeping the digest it appends: self.__byte_buffer += footer_hash.
write_keeping_footer(self, auto_update, add_footer) ==
    LET updated == write_update(self, auto_update)
        emitted == write_emit(updated.val, write_open)
    IN  IF updated.exc # "None"
        THEN [exc |-> updated.exc, self |-> updated.val, file |-> NoFile]
        ELSE [exc |-> "None",
              self |-> IF add_footer
                       THEN [updated.val EXCEPT !.byte_buffer =
                                                    @ \o sha256(updated.val.byte_buffer)]
                       ELSE updated.val,
              file |-> IF add_footer THEN write_footer(updated.val, emitted)
                       ELSE emitted]

write(self, auto_update, add_footer) ==
    LET updated == write_update(self, auto_update)
        emitted == write_emit(updated.val, write_open)
    IN  IF updated.exc # "None"
        THEN [exc |-> updated.exc, self |-> updated.val, file |-> NoFile]
        ELSE [exc |-> "None",
              self |-> updated.val,
              file |-> IF add_footer THEN write_footer(updated.val, emitted)
                       ELSE emitted]

(***************************************************************************)
(* GBKFCoreReader.py.  `self` is the record of the reader's fields:        *)
(* bytes_data, sha256_read, sha256_calculated, gkbf_version,               *)
(* specification_id, specification_version, keys_size, keyed_values_nb.    *)
(* A reading method returns the pair <<value, end_pos>>.                   *)
(***************************************************************************)
\* __read_int taking the bytes most significant first.
read_int_big_endian(self, start_pos, size, signed) ==
    LET end_pos == start_pos + size
        bytes_value == Slice(self.bytes_data, start_pos, end_pos)
    IN  <<from_bytes(bytes_value, "big", signed), end_pos>>

read_int(self, start_pos, size, signed) ==
    LET end_pos == start_pos + size
        bytes_value == Slice(self.bytes_data, start_pos, end_pos)
    IN  <<from_bytes(bytes_value, "little", signed), end_pos>>

\* bytes.decode('ascii'): UnicodeDecodeError (a ValueError) on a byte over 127.
decode_ascii(bytes) ==
    IF \E i \in 1..Len(bytes) : bytes[i] > 127 THEN Raise("UnicodeDecodeError")
    ELSE Ok(bytes)

read_ascii(self, start_pos, length) ==
    LET end_pos == start_pos + length
        bytes_value == Slice(self.bytes_data, start_pos, end_pos)
    IN  Bind(decode_ascii(bytes_value), LAMBDA str : Ok(<<str, end_pos>>))

read_single(self, start_pos) ==
    LET end_pos == start_pos + single_size
        single_bytes == Slice(self.bytes_data, start_pos, end_pos)
    IN  Bind(unpack_single(single_bytes), LAMBDA value : Ok(<<value, end_pos>>))

read_double(self, start_pos) ==
    LET end_pos == start_pos + double_size
        double_bytes == Slice(self.bytes_data, start_pos, end_pos)
    IN  Bind(unpack_double(double_bytes), LAMBDA value : Ok(<<value, end_pos>>))

RECURSIVE ReadValuesIntLoop(_, _, _, _, _, _)
ReadValuesIntLoop(self, current_pos, left, integers_size, signed, values) ==
    IF left = 0 THEN Ok(<<values, current_pos>>)
    ELSE LET r == read_int(self, current_pos, integers_size, signed)
         IN  ReadValuesIntLoop(self, r[2], left - 1, integers_size, signed,
                               Append(values, r[1]))

read_values_int(self, start_pos, values_nb, integers_size, signed) ==
    ReadValuesIntLoop(self, start_pos, ToNat(values_nb), integers_size, signed, <<>>)

RECURSIVE ReadValuesFloat32Loop(_, _, _, _)
ReadValuesFloat32Loop(self, current_pos, left, values) ==
    IF left = 0 THEN Ok(<<values, current_pos>>)
    ELSE LET r == read_single(self, current_pos)
         IN  IF r.exc # "None" THEN Raise(r.exc)
             ELSE ReadValuesFloat32Loop(self, r.val[2], left - 1, Append(values, r.val[1]))

read_values_float32(self, start_pos, values_nb) ==
    ReadValuesFloat32Loop(self, start_pos, ToNat(values_nb), <<>>)

RECURSIVE ReadValuesFloat64Loop(_, _, _, _)
ReadValuesFloat64Loop(self, current_pos, left, values) ==
    IF left = 0 THEN Ok(<<values, current_pos>>)
    ELSE LET r == read_double(self, current_pos)
         IN  IF r.exc # "None" THEN Raise(r.exc)
             ELSE ReadValuesFloat64Loop(self, r.val[2], left - 1, Append(values, r.val[1]))

read_values_float64(self, start_pos, values_nb) ==
    ReadValuesFloat64Loop(self, start_pos, ToNat(values_nb), <<>>)

\* read_header without the test of the length.
read_header_any_length(self) ==
    IF Slice(self.bytes_data, 0, GBKF_KEYWORD_SIZE) # GBKF_KEYWORD
    THEN Raise("ValueError")
    ELSE Ok([self EXCEPT
            !.gkbf_version =
                read_int(self, GBKF_VERSION_START, GBKF_VERSION_SIZE, FALSE)[1],
            !.specification_id =
                read_int(self, SPECIFICATION_ID_START, SPECIFICATION_SIZE, FALSE)[1],
            !.specification_version =
                read_int(self, SPECIFICATION_VERSION_START,
                         SPECIFICATION_VERSION_SIZE, FALSE)[1],
            !.keys_size =
                read_int(self, KEYS_SIZE_START, KEYS_SIZE_SIZE, FALSE)[1],
            !.keyed_values_nb =
                read_int(self, KEYED_VALUES_NB_START, KEYED_VALUES_NB_SIZE, FALSE)[1]])

read_header(self) ==
    IF Len(self.bytes_data) < HEADER_SIZE THEN Raise("ValueError")
    ELSE IF Slice(self.bytes_data, 0, GBKF_KEYWORD_SIZE) # GBKF_KEYWORD
    THEN Raise("ValueError")
    ELSE Ok([self EXCEPT
            !.gkbf_version =
                read_int(self, GBKF_VERSION_START, GBKF_VERSION_SIZE, FALSE)[1],
            !.specification_id =
                read_int(self, SPECIFICATION_ID_START, SPECIFICATION_SIZE, FALSE)[1],
            !.specification_version =
                read_int(self, SPECIFICATION_VERSION_START,
                         SPECIFICATION_VERSION_SIZE, FALSE)[1],
            !.keys_size =
                read_int(self, KEYS_SIZE_START, KEYS_SIZE_SIZE, FALSE)[1],
            !.keyed_values_nb =
                read_int(self, KEYED_VALUES_NB_START, KEYED_VALUES_NB_SIZE, FALSE)[1]])

\* A constructor that takes the digest of the whole file, footer included.
GBKFCoreReader_digest_of_file(data) ==
    read_header([bytes_data |-> data,
                 gkbf_version |-> None,
                 specification_id |-> None,
                 specification_version |-> None,
                 keys_size |-> None,
                 keyed_values_nb |-> None,
                 sha256_read |-> LastN(data, sha256_size),
                 sha256_calculated |-> sha256(data)])

\* A constructor that raises when the footer is not the digest of the rest.
GBKFCoreReader_checking_digest(data) ==
    IF LastN(data, sha256_size) # sha256(DropLastN(data, sha256_size))
    THEN Raise("ValueError")
    ELSE read_header([bytes_data |-> data,
                      gkbf_version |-> None,
                      specification_id |-> None,
                      specification_version |-> None,
                      keys_size |-> None,
                      keyed_values_nb |-> None,
                      sha256_read |-> LastN(data, sha256_size),
                      sha256_calculated |-> sha256(DropLastN(data, sha256_size))])

\* GBKFCoreReader(read_path) on a path that holds the bytes `data`.
GBKFCoreReader(data) ==
    read_header([bytes_data |-> data,
                 gkbf_version |-> None,
                 specification_id |-> None,
                 specification_version |-> None,
                 keys_size |-> None,
                 keyed_values_nb |-> None,
                 sha256_read |-> LastN(data, sha256_size),
                 sha256_calculated |-> sha256(DropLastN(data, sha256_size))])

verifies_sha(self) == self.sha256_read = self.sha256_calculated

get_gbkf_version(self) == self.gkbf_version

get_specification_id(self) == self.specification_id

get_specification_version(self) == self.specification_version

get_keys_size(self) == self.keys_size

get_keyed_values_nb(self) == self.keyed_values_nb

\* The four reads that open an entry, in the order get_keyed_values makes them:
\* each field with the position its read started at.
ReadEntryHeader(self, start_pos) ==
    Bind(read_ascii(self, start_pos, ToNat(self.keys_size)), LAMBDA k :
    LET i == read_int(self, k[2], 4, FALSE)
        n == read_int(self, i[2], 4, FALSE)
        t == read_int(self, n[2], 1, FALSE)
    IN  Ok([key |-> k[1], key_pos |-> start_pos,
            instance_id |-> i[1], instance_id_pos |-> k[2],
            values_number |-> n[1], values_number_pos |-> i[2],
            value_type |-> t[1], value_type_pos |-> n[2],
            current_pos |-> t[2]]))

\* A match statement that reads no value for a type it has no case for.
ReadEntryValues_skipping(self, current_pos, values_number, value_type) ==
    CASE value_type = INT8 -> read_values_int(self, current_pos, values_number, 1, TRUE)
      [] value_type = INT16 -> read_values_int(self, current_pos, values_number, 2, TRUE)
      [] value_type = INT32 -> read_values_int(self, current_pos, values_number, 4, TRUE)
      [] value_type = INT64 -> read_values_int(self, current_pos, values_number, 8, TRUE)
      [] value_type = UINT8 -> read_values_int(self, current_pos, values_number, 1, FALSE)
      [] value_type = UINT16 -> read_values_int(self, current_pos, values_number, 2, FALSE)
      [] value_type = UINT32 -> read_values_int(self, current_pos, values_number, 4, FALSE)
      [] value_type = UINT64 -> read_values_int(self, current_pos, values_number, 8, FALSE)
      [] value_type = FLOAT32 -> read_values_float32(self, current_pos, values_number)
      [] value_type = FLOAT64 -> read_values_float64(self, current_pos, values_number)
      [] OTHER -> Ok(<<<<>>, current_pos>>)

\* A match statement that reads the integers of every type as unsigned.
ReadEntryValues_unsigned(self, current_pos, values_number, value_type) ==
    CASE value_type = INT8 -> read_values_int(self, current_pos, values_number, 1, FALSE)
      [] value_type = INT16 -> read_values_int(self, current_pos, values_number, 2, FALSE)
      [] value_type = INT32 -> read_values_int(self, current_pos, values_number, 4, FALSE)
      [] value_type = INT64 -> read_values_int(self, current_pos, values_number, 8, FALSE)
      [] value_type = UINT8 -> read_values_int(self, current_pos, values_number, 1, FALSE)
      [] value_type = UINT16 -> read_values_int(self, current_pos, values_number, 2, FALSE)
      [] value_type = UINT32 -> read_values_int(self, current_pos, values_number, 4, FALSE)
      [] value_type = UINT64 -> read_values_int(self, current_pos, values_number, 8, FALSE)
      [] value_type = FLOAT32 -> read_values_float32(self, current_pos, values_number)
      [] value_type = FLOAT64 -> read_values_float64(self, current_pos, values_number)
      [] OTHER -> Raise("ValueError")

\* The match statement of get_keyed_values: the values of one entry.
ReadEntryValues(self, current_pos, values_number, value_type) ==
    CASE value_type = INT8 -> read_values_int(self, current_pos, values_number, 1, TRUE)
      [] value_type = INT16 -> read_values_int(self, current_pos, values_number, 2, TRUE)
      [] value_type = INT32 -> read_values_int(self, current_pos, values_number, 4, TRUE)
      [] value_type = INT64 -> read_values_int(self, current_pos, values_number, 8, TRUE)
      [] value_type = UINT8 -> read_values_int(self, current_pos, values_number, 1, FALSE)
      [] value_type = UINT16 -> read_values_int(self, current_pos, values_number, 2, FALSE)
      [] value_type = UINT32 -> read_values_int(self, current_pos, values_number, 4, FALSE)
      [] value_type = UINT64 -> read_values_int(self, current_pos, values_number, 8, FALSE)
      [] value_type = FLOAT32 -> read_values_float32(self, current_pos, values_number)
      [] value_type = FLOAT64 -> read_values_float64(self, current_pos, values_number)
      [] OTHER -> Raise("ValueError")

\* keyed_values[key].append(keyed_entry), or keyed_values[key] = [keyed_entry].
DictAppend(keyed_values, key, keyed_entry) ==
    IF key \in DOMAIN keyed_values
    THEN [keyed_values EXCEPT ![key] = Append(@, keyed_entry)]
    ELSE [k \in (DOMAIN keyed_values) \cup {key} |->
            IF k = key THEN <<keyed_entry>> ELSE keyed_values[k]]

\* One turn of the loop of get_keyed_values: the dictionary and the position after it.
ReadEntry(self, current_pos, keyed_values) ==
    Bind(ReadEntryHeader(self, current_pos), LAMBDA h :
    IF ToNat(h.value_type) \notin ValueType THEN Raise("ValueError")
    ELSE Bind(ReadEntryValues(self, h.current_pos, h.values_number, ToNat(h.value_type)),
              LAMBDA v :
         Ok(<<DictAppend(keyed_values, h.key,
                         [instance_id |-> h.instance_id,
                          type |-> ToNat(h.value_type),
                          values |-> v[1]]),
              v[2]>>)))

\* for _ in range(self.keyed_values_nb): turn `done` + 1 of the loop and the
\* ones after it.  The call returns [exc, val, current_pos, entries]: the
\* dictionary (on a return), the position reached and the entries decoded.
RECURSIVE ReadEntriesLoop(_, _, _, _)
ReadEntriesLoop(self, done, current_pos, keyed_values) ==
    IF ~IntLess(PyInt(done), self.keyed_values_nb)
    THEN [exc |-> "None", val |-> keyed_values,
          current_pos |-> current_pos, entries |-> done]
    ELSE LET r == ReadEntry(self, current_pos, keyed_values)
         IN  IF r.exc # "None"
             THEN [exc |-> r.exc, val |-> None,
                   current_pos |-> current_pos, entries |-> done]
             ELSE ReadEntriesLoop(self, done + 1, r.val[2], r.val[1])

\* get_keyed_values decoding the entries off the data of the reader: the bytes
\* of the entries it decoded are no longer in bytes_data when it returns.
get_keyed_values_consuming(self) ==
    LET r == ReadEntriesLoop(self, 0, HEADER_SIZE, <<>>)
    IN  [exc |-> r.exc,
         self |-> [self EXCEPT !.bytes_data = Slice(@, 0, HEADER_SIZE)
                                                \o Slice(@, r.current_pos, Len(@))],
         val |-> r.val, current_pos |-> r.current_pos, entries |-> r.entries]

\* get_keyed_values(): the dictionary and the position are local variables, and
\* no field of the reader is assigned; self is the reader after the call.
get_keyed_values(self) ==
    LET r == ReadEntriesLoop(self, 0, HEADER_SIZE, <<>>)
    IN  [exc |-> r.exc, self |-> self, val |-> r.val,
         current_pos |-> r.current_pos, entries |-> r.entries]

(***************************************************************************)
(* The state: one writer, the file at the path it writes to, one reader.   *)
(***************************************************************************)
VARIABLES
    writer,     \* the fields of the GBKFCoreWriter
    file,       \* the file at the path: NoFile, or FileOf(its bytes)
    reader,     \* the fields of the GBKFCoreReader, None while none was constructed
    raised,     \* the exception the last call raised, "None" when it returned
    result,     \* what the last get_keyed_values() of the reader gave, None before
    call,       \* history: the last call, its arguments, the writer before it
    added,      \* history: the entries the writer accepted since the last reset
    header,     \* history: the header values set on the writer since the last reset
    origin,     \* history: where the bytes of `file` come from, and the bytes
    opened      \* history: `origin` when the reader was constructed

vars == <<writer, file, reader, raised, result, call, added, header, origin, opened>>

\* Bounds of the model.
MaxEntries == 2

MaxWrites == 1

MaxRewrites == 1

DefaultHeader ==
    [gbkf_version |-> PyInt(DefaultGbkfVersion),
     specification_id |-> PyInt(DefaultSpecificationId),
     specification_version |-> PyInt(DefaultSpecificationVersion),
     keys_size |-> PyInt(DefaultKeysSize),
     keyed_values_nb |-> PyInt(DefaultKeyedValuesNb)]

NoOrigin == [kind |-> "none"]

Init ==
    /\ writer = NewWriter
    /\ file = NoFile
    /\ reader = None
    /\ raised = "None"
    /\ result = None
    /\ call = [op |-> "GBKFCoreWriter", before |-> NewWriter]
    /\ added = <<>>
    /\ header = DefaultHeader
    /\ origin = NoOrigin
    /\ opened = NoOrigin

(***************************************************************************)
(* The writer's operations.                                                *)
(***************************************************************************)
\* The writes so far.  The writer is called while a write can still follow,
\* and is left alone in a behaviour that reads a file built outside it.
Writes == IF origin.kind = "writer" THEN origin.writes ELSE 0

WriterInUse == origin.kind # "foreign" /\ Writes < MaxWrites

\* reset(), which may also follow the last write.
Reset ==
    /\ origin.kind # "foreign"
    /\ \E r \in {reset(writer)} :
           /\ writer' = r.val
           /\ raised' = r.exc
           /\ added' = IF r.exc = "None" THEN <<>> ELSE added
           /\ header' = IF r.exc = "None" THEN DefaultHeader ELSE header
    /\ call' = [op |-> "reset", before |-> writer]
    /\ UNCHANGED <<file, reader, result, origin, opened>>

\* A header setter: the call r it makes and the field of the header it sets.
Setter(op, value, r, field) ==
    /\ WriterInUse
    /\ writer' = r.val
    /\ raised' = r.exc
    /\ call' = [op |-> op, value |-> value, before |-> writer]
    /\ header' = IF r.exc = "None" THEN [header EXCEPT ![field] = value] ELSE header
    /\ UNCHANGED <<file, reader, result, added, origin, opened>>

SetGbkfVersion(uint8) ==
    Setter("set_gbkf_version", uint8, set_gbkf_version(writer, uint8), "gbkf_version")

SetSpecificationId(uint32) ==
    Setter("set_specification_id", uint32, set_specification_id(writer, uint32),
           "specification_id")

SetSpecificationVersion(uint16) ==
    Setter("set_specification_version", uint16,
           set_specification_version(writer, uint16), "specification_version")

SetKeysSize(uint8) ==
    Setter("set_keys_size", uint8, set_keys_size(writer, uint8), "keys_size")

SetKeyedValuesNb(uint3) ==
    Setter("set_keyed_values_nb", uint3, set_keyed_values_nb(writer, uint3),
           "keyed_values_nb")

SetKeyedValuesNbAuto ==
    Setter("set_keyed_values_nb_auto", writer.keyed_values_nb,
           set_keyed_values_nb_auto(writer), "keyed_values_nb")

\* add_keyed_values_<type>(key, instance_id, values); the writer accepts
\* MaxEntries entries.
AddKeyedValuesCall(type, key, instance_id, values) ==
    /\ \E r \in {add_keyed_values(writer, type, key, instance_id, values)} :
           /\ Len(added) < MaxEntries \/ r.exc # "None"
           /\ writer' = r.val
           /\ raised' = r.exc
           /\ added' = IF r.exc = "None"
                       THEN Append(added, [key |-> key, instance_id |-> instance_id,
                                           type |-> type, values |-> values])
                       ELSE added
    /\ call' = [op |-> "add_keyed_values", key |-> key, instance_id |-> instance_id,
                type |-> type, values |-> values, before |-> writer]
    /\ UNCHANGED <<file, reader, result, header, origin, opened>>

\* The call on a writer that was not written yet.
AddKeyedValues(type, key, instance_id, values) ==
    WriterInUse /\ AddKeyedValuesCall(type, key, instance_id, values)

\* write(write_path, auto_update, add_footer); call.file is the file at the
\* path when the call began.
WriteCall(auto_update, add_footer) ==
    /\ \E r \in {write(writer, auto_update, add_footer)} :
           /\ writer' = r.self
           /\ raised' = r.exc
           /\ file' = IF r.file.exists THEN r.file ELSE file
           /\ header' = IF auto_update /\ r.exc = "None"
                        THEN [header EXCEPT !.keyed_values_nb = writer.keyed_values_nb]
                        ELSE header
           /\ origin' = IF ~r.file.exists THEN origin
                        ELSE [data |-> r.file.data,
                              kind |-> "writer", writes |-> Writes + 1,
                              header |-> header', entries |-> added,
                              auto_update |-> auto_update, add_footer |-> add_footer,
                              body |-> r.self.byte_buffer, tamper |-> "none", at |-> 0]
    /\ call' = [op |-> "write", file |-> file, auto_update |-> auto_update,
                add_footer |-> add_footer, before |-> writer, at |-> "returned"]
    /\ UNCHANGED <<reader, result, added, opened>>

\* The first MaxWrites calls of write on the path.
Write(auto_update, add_footer) == WriterInUse /\ WriteCall(auto_update, add_footer)

\* write(write_path, auto_update, add_footer) statement by statement.  call.at
\* is the statement the call has reached, or "returned", or the statement it
\* raised in; call.file is the file at the path when the call began.  The
\* path is written MaxWrites times and written again MaxRewrites times.
InWrite == call.op = "write" /\ call.at \in {"updated", "opened", "emitted"}

\* if auto_update: self.set_keyed_values_nb_auto()
WriteUpdate(auto_update, add_footer) ==
    /\ origin.kind # "foreign"
    /\ Writes < MaxWrites + MaxRewrites
    /\ ~InWrite
    /\ \E r \in {write_update(writer, auto_update)} :
           /\ writer' = r.val
           /\ raised' = r.exc
           /\ header' = IF auto_update /\ r.exc = "None"
                        THEN [header EXCEPT !.keyed_values_nb = writer.keyed_values_nb]
                        ELSE header
           /\ call' = [op |-> "write", file |-> file, auto_update |-> auto_update,
                       add_footer |-> add_footer, before |-> writer,
                       at |-> IF r.exc = "None" THEN "updated" ELSE "raised in update"]
    /\ UNCHANGED <<file, reader, result, added, origin, opened>>

\* The file a statement of write leaves at the path.
WriteLeaves(f) ==
    /\ file' = f
    /\ origin' = [data |-> f.data,
                  kind |-> "writer",
                  writes |-> IF call.at = "updated" THEN Writes + 1 ELSE Writes,
                  header |-> header, entries |-> added,
                  auto_update |-> call.auto_update, add_footer |-> call.add_footer,
                  body |-> writer.byte_buffer, tamper |-> "none", at |-> 0]

\* A statement of write raises OSError and leaves the file as it is.
WriteRaises(statement) ==
    /\ raised' = "OSError"
    /\ call' = [call EXCEPT !.at = statement]
    /\ UNCHANGED <<file, origin>>

\* open(write_path, "wb")
WriteOpen(ok) ==
    /\ call.op = "write"
    /\ call.at = "updated"
    /\ IF ok
       THEN /\ WriteLeaves(write_open)
            /\ call' = [call EXCEPT !.at = "opened"]
            /\ UNCHANGED raised
       ELSE WriteRaises("raised in open")
    /\ UNCHANGED <<writer, reader, result, added, header, opened>>

\* f.write(self.__byte_buffer), to the end of the with block.
WriteEmit(ok) ==
    /\ call.op = "write"
    /\ call.at = "opened"
    /\ IF ok
       THEN /\ WriteLeaves(write_emit(writer, file))
            /\ call' = [call EXCEPT !.at = IF call.add_footer THEN "emitted"
                                           ELSE "returned"]
            /\ UNCHANGED raised
       ELSE WriteRaises("raised in emit")
    /\ UNCHANGED <<writer, reader, result, added, header, opened>>

\* if add_footer: the with block that appends the digest.
WriteFooter(ok) ==
    /\ call.op = "write"
    /\ call.at = "emitted"
    /\ IF ok
       THEN /\ WriteLeaves(write_footer(writer, file))
            /\ call' = [call EXCEPT !.at = "returned"]
            /\ UNCHANGED raised
       ELSE WriteRaises("raised in footer")
    /\ UNCHANGED <<writer, reader, result, added, header, opened>>

(***************************************************************************)
(* The reader's operations.                                                *)
(***************************************************************************)
\* GBKFCoreReader(read_path): open() raises FileNotFoundError without a file.
ReaderInit ==
    /\ \E r \in {IF file.exists THEN GBKFCoreReader(file.data)
                ELSE Raise("FileNotFoundError")} :
           /\ reader' = IF r.exc = "None" THEN r.val ELSE None
           /\ raised' = r.exc
    /\ result' = None
    /\ opened' = origin
    /\ call' = [op |-> "GBKFCoreReader"]
    /\ UNCHANGED <<writer, file, added, header, origin>>

ReadHeader ==
    /\ reader # None
    /\ \E r \in {read_header(reader)} :
           /\ reader' = IF r.exc = "None" THEN r.val ELSE reader
           /\ raised' = r.exc
    /\ call' = [op |-> "read_header"]
    /\ UNCHANGED <<writer, file, result, added, header, origin, opened>>

GetKeyedValues ==
    /\ reader # None
    /\ \E r \in {get_keyed_values(reader)} :
           /\ reader' = r.self
           /\ result' = [exc |-> r.exc, val |-> r.val,
                         current_pos |-> r.current_pos, entries |-> r.entries]
           /\ raised' = r.exc
    /\ call' = [op |-> "get_keyed_values", before |-> reader, previous |-> result]
    /\ UNCHANGED <<writer, file, added, header, origin, opened>>

(***************************************************************************)
(* The environment: what else happens to the file between a write and a    *)
(* read.  One byte changes, the file is cut short, or the file is one      *)
(* that no writer of this module produced.                                 *)
(***************************************************************************)
Untouched == file.exists /\ origin.tamper = "none"

CorruptByte(pos, byte) ==
    /\ Untouched
    /\ pos \in 1..Len(file.data)
    /\ byte # file.data[pos]
    /\ file' = FileOf([file.data EXCEPT ![pos] = byte])
    /\ origin' = [origin EXCEPT !.data = file'.data, !.tamper = "byte", !.at = pos]
    /\ UNCHANGED <<writer, reader, raised, result, call, added, header, opened>>

\* The bytes a corruption writes over the byte b.
Flips(b) == {(b + 1) % 256, 255 - b}

Truncate(length) ==
    /\ Untouched
    /\ length \in 0..(Len(file.data) - 1)
    /\ file' = FileOf(Slice(file.data, 0, length))
    /\ origin' = [origin EXCEPT !.data = file'.data, !.tamper = "truncated",
                                !.at = length]
    /\ UNCHANGED <<writer, reader, raised, result, call, added, header, opened>>

\* The bytes of an entry given by its fields and the raw bytes of its values,
\* the count before the type tag ("reader": the order get_keyed_values reads)
\* or after it ("writer": the order get_keyed_values_header emits).
ForeignEntry(layout, e) ==
    LET count == to_bytes(PyInt(e.count), 4, "little", FALSE).val
        iid == to_bytes(PyInt(e.instance_id), 4, "little", FALSE).val
    IN  e.key \o iid
            \o (IF layout = "reader" THEN count \o <<e.type>> ELSE <<e.type>> \o count)
            \o e.data

RECURSIVE ForeignEntries(_, _)
ForeignEntries(layout, entries) ==
    IF entries = <<>> THEN <<>>
    ELSE ForeignEntry(layout, Head(entries)) \o ForeignEntries(layout, Tail(entries))

\* A whole file built outside the writer: version 1, keys of one byte.
ForeignBody(layout, entries) ==
    GBKF_KEYWORD \o <<1>> \o <<0, 0, 0, 0>> \o <<0, 0>> \o <<1>>
        \o to_bytes(PyInt(Len(entries)), 4, "little", FALSE).val
        \o ForeignEntries(layout, entries)

PutFile(layout, entries, footer) ==
    /\ ~file.exists
    /\ writer = NewWriter
    /\ LET body == ForeignBody(layout, entries)
       IN  /\ file' = FileOf(IF footer THEN body \o sha256(body) ELSE body)
           /\ origin' = [data |-> file'.data,
                         kind |-> "foreign", layout |-> layout, entries |-> entries,
                         add_footer |-> footer, body |-> body,
                         tamper |-> "none", at |-> 0]
    /\ UNCHANGED <<writer, reader, raised, result, call, added, header, opened>>

(***************************************************************************)
(* The arguments the calls are tried with.                                 *)
(***************************************************************************)
IntegerTypes == {INT8, INT16, INT32, INT64, UINT8, UINT16, UINT32, UINT64}

FloatTypes == {FLOAT32, FLOAT64}

SupportedTypes == IntegerTypes \cup FloatTypes

Signed(type) == type \in {INT8, INT16, INT32, INT64}

Width(type) ==
    CASE type \in {INT8, UINT8} -> 1
      [] type \in {INT16, UINT16} -> 2
      [] type \in {INT32, UINT32, FLOAT32} -> 4
      [] type \in {INT64, UINT64, FLOAT64} -> 8

RECURSIVE MagDecrement(_)
MagDecrement(mag) ==
    IF mag[1] > 0 THEN <<mag[1] - 1>> \o Tail(mag)
    ELSE <<255>> \o MagDecrement(Tail(mag))

\* v - 1 and v + 1.
Pred(v) == IF v.neg \/ v.mag = <<>> THEN MkInt(TRUE, MagIncrement(v.mag))
           ELSE MkInt(FALSE, MagDecrement(v.mag))

Succ(v) == Neg(Pred(Neg(v)))

\* The least and the greatest value of an integer type of Width(type) bytes:
\* -2^(8w-1) and 2^(8w-1) - 1 when it is signed, 0 and 2^(8w) - 1 when not.
TypeMin(type) ==
    IF Signed(type) THEN MkInt(TRUE, Repeat(0, Width(type) - 1) \o <<128>>)
    ELSE PyInt(0)

TypeMax(type) ==
    IF Signed(type) THEN Pred(MkInt(FALSE, Repeat(0, Width(type) - 1) \o <<128>>))
    ELSE Pred(MkInt(FALSE, Repeat(0, Width(type)) \o <<1>>))

InRange(type, v) == ~IntLess(v, TypeMin(type)) /\ ~IntGreater(v, TypeMax(type))

\* Keys: "A", "B", "UI", "SI", and the one-character key U+00E9.
KeyA == <<65>>

KeyB == <<66>>

KeyUI == <<85, 73>>

KeySI == <<83, 73>>

KeyNonAscii == <<233>>

\* One list and one instance id for each integer type.
IntegerList(type) ==
    IF type \in {INT8, INT32, UINT16, UINT64}
    THEN <<TypeMin(type), TypeMax(type)>>
    ELSE <<PyInt(1), (IF Signed(type) THEN PyInt(-1) ELSE PyInt(0)), TypeMax(type)>>

InstanceId(type) == IF type \in {INT8, INT16, UINT8, UINT16} THEN PyInt(1) ELSE uint_32_max

(***************************************************************************)
(* Writing integers and reading them back.                                 *)
(***************************************************************************)
NextRoundTrip ==
    \/ \E n \in {1, 2} : SetKeysSize(PyInt(n))
    \/ \E type \in IntegerTypes, key \in {KeyA, KeyUI} :
            AddKeyedValues(type, key, InstanceId(type), IntegerList(type))
    \/ Write(TRUE, TRUE)
    \/ ReaderInit
    \/ GetKeyedValues

SpecRoundTrip == Init /\ [][NextRoundTrip]_vars

\* The reader was constructed on a file the writer wrote with
\* auto_update = True and nobody touched since.
ReadsWritten ==
    /\ reader # None
    /\ opened.kind = "writer"
    /\ opened.tamper = "none"
    /\ opened.auto_update

\* Such a file holds one or more entries, all of integer types.
ReadsWrittenIntegers ==
    /\ ReadsWritten
    /\ Len(opened.entries) >= 1
    /\ \A i \in 1..Len(opened.entries) : opened.entries[i].type \in IntegerTypes

\* The entry e is in the dictionary get_keyed_values() returned: under its key,
\* with its instance id, its type tag and its values in their order.
Returned(e) ==
    /\ e.key \in DOMAIN result.val
    /\ \E j \in 1..Len(result.val[e.key]) :
          result.val[e.key][j] =
              [instance_id |-> e.instance_id, type |-> e.type, values |-> e.values]

\* C1: integers of every supported type, inside the bounds of the type, written
\* by add_keyed_values_<type> and write(auto_update=True), come back from
\* get_keyed_values() under the same key with the same instance id, the same
\* type tag and the same values in the same order.
RoundTripIntegers ==
    (ReadsWrittenIntegers /\ result # None) =>
        /\ result.exc = "None"
        /\ \A i \in 1..Len(opened.entries) : Returned(opened.entries[i])

\* C2: get_keyed_values reads the fields that open an entry in the order and
\* with the widths the writer emits them: the key, the instance id on 4 bytes,
\* the type tag on 1 byte, then the count on 4 bytes.  Stated on the first entry
\* of a written file: every field is read where it was written and decodes to
\* what was written.
DecodesFieldsInEncodedOrder ==
    (ReadsWritten /\ Len(opened.entries) >= 1) =>
        LET h == ReadEntryHeader(reader, HEADER_SIZE)
            e == opened.entries[1]
        IN  /\ h.exc = "None"
            /\ h.val.key_pos = HEADER_SIZE
            /\ h.val.instance_id_pos = h.val.key_pos + Len(e.key)
            /\ h.val.value_type_pos = h.val.instance_id_pos + 4
            /\ h.val.values_number_pos = h.val.value_type_pos + 1
            /\ h.val.key = e.key
            /\ h.val.instance_id = e.instance_id
            /\ h.val.value_type = PyInt(e.type)
            /\ h.val.values_number = PyInt(Len(e.values))

(***************************************************************************)
(* Setting the header, writing it as it is and reading it back.            *)
(***************************************************************************)
\* For each header field its least and greatest value, or one of them and a
\* value in between, and values outside its range.
GbkfVersions == {PyInt(0), uint_8_max, Succ(uint_8_max)}

SpecificationIds == {uint_32_max, Succ(uint_32_max)}

SpecificationVersions == {PyInt(258), uint_16_max, PyInt(-1)}

KeysSizes == {PyInt(0), uint_8_max, Succ(uint_8_max)}

KeyedValuesNbs == {PyInt(1), uint_32_max, Succ(uint_32_max)}

\* No file was written yet: the writer is still being prepared.
Unwritten == origin.kind = "none"

\* The header is set, then written, then read.
NextHeader ==
    \/ Unwritten /\ Reset
    \/ Unwritten /\ \E uint8 \in GbkfVersions : SetGbkfVersion(uint8)
    \/ Unwritten /\ \E uint32 \in SpecificationIds : SetSpecificationId(uint32)
    \/ Unwritten /\ \E uint16 \in SpecificationVersions : SetSpecificationVersion(uint16)
    \/ Unwritten /\ \E uint8 \in KeysSizes : SetKeysSize(uint8)
    \/ Unwritten /\ \E uint32 \in KeyedValuesNbs : SetKeyedValuesNb(uint32)
    \/ Unwritten /\ SetKeyedValuesNbAuto
    \/ \E add_footer \in BOOLEAN : Write(FALSE, add_footer)
    \/ ReaderInit
    \/ ReadHeader

SpecHeader == Init /\ [][NextHeader]_vars

\* The reader was constructed on a file the writer wrote with
\* auto_update = False and nobody touched since.
ReadsWrittenHeader ==
    /\ reader # None
    /\ opened.kind = "writer"
    /\ opened.tamper = "none"
    /\ ~opened.auto_update

\* C3: the five header values set through the setters and written with
\* write(auto_update=False) are the values the five header accessors of the
\* reader return, with the footer and without it.
HeaderRoundTrip ==
    ReadsWrittenHeader =>
        /\ get_gbkf_version(reader) = opened.header.gbkf_version
        /\ get_specification_id(reader) = opened.header.specification_id
        /\ get_specification_version(reader) = opened.header.specification_version
        /\ get_keys_size(reader) = opened.header.keys_size
        /\ get_keyed_values_nb(reader) = opened.header.keyed_values_nb

\* A header of greatest values and a specification version between the bounds,
\* written without the footer, was read.
HeaderRoundTripWitness ==
    /\ ReadsWrittenHeader
    /\ ~opened.add_footer
    /\ get_gbkf_version(reader) = uint_8_max
    /\ get_specification_id(reader) = uint_32_max
    /\ get_specification_version(reader) = PyInt(258)
    /\ get_keys_size(reader) = uint_8_max
    /\ get_keyed_values_nb(reader) = uint_32_max

(***************************************************************************)
(* Adding integers at and beyond the bounds of their type.                 *)
(***************************************************************************)
\* The bounds of the type, the value over the greatest one after a value that
\* fits, and the value under the least one between two values that fit.
BoundaryLists(type) ==
    {<<TypeMin(type), TypeMax(type)>>,
     <<TypeMin(type), Succ(TypeMax(type))>>,
     <<PyInt(1), Pred(TypeMin(type)), TypeMax(type)>>}

NextBounds ==
    \E type \in IntegerTypes :
        \E integers \in BoundaryLists(type) :
            AddKeyedValues(type, KeyA, PyInt(1), integers)

SpecBounds == Init /\ [][NextBounds]_vars

OutOfRange(type, values) == \E i \in 1..Len(values) : ~InRange(type, values[i])

\* The last call was add_keyed_values_<type> for an integer type, with a value
\* under the least or over the greatest value of the type.
AddedOutOfRange ==
    /\ call.op = "add_keyed_values"
    /\ call.type \in IntegerTypes
    /\ OutOfRange(call.type, call.values)

\* C4: add_keyed_values_<type> raises ValueError when a value of the list is
\* under the minimum or over the maximum of the integer type, and leaves the
\* writer as it was: no byte of the list reaches the buffer.
IntegerBoundsEnforced ==
    AddedOutOfRange => (raised = "ValueError" /\ writer = call.before)

\* 128 was given as an int8 after a value that fits, to a writer holding an entry.
IntegerBoundsEnforcedWitness ==
    /\ AddedOutOfRange
    /\ call.type = INT8
    /\ call.values = <<PyInt(-128), PyInt(128)>>
    /\ Len(added) >= 1
    /\ raised = "ValueError"

(***************************************************************************)
(* Adding entries under keys of every shape.                               *)
(***************************************************************************)
\* 1.5 and -2.25.
FloatList ==
    <<Float(0, 1023, HexBits(<<8>> \o Repeat(0, 12))),
      Float(1, 1024, HexBits(<<2>> \o Repeat(0, 12)))>>

\* One list of values that fit for each supported type.
ValuesOf(type) == IF type \in IntegerTypes THEN IntegerList(type) ELSE FloatList

\* The empty key, keys of one and of two ASCII characters, a key of one
\* character that is not ASCII.
Keys == {<<>>, KeyA, KeyUI, KeyNonAscii}

NextKeys ==
    \/ Reset
    \/ \E n \in {1, 2} : SetKeysSize(PyInt(n))
    \/ \E type \in SupportedTypes, key \in Keys :
            AddKeyedValues(type, key, InstanceId(type), ValuesOf(type))

SpecKeys == Init /\ [][NextKeys]_vars

\* The exception classes that are ValueError or derive from it.
IsValueError(exc) == exc \in {"ValueError", "UnicodeEncodeError", "UnicodeDecodeError"}

\* The last call was an add_keyed_values_<type> with an instance id and values
\* that fit the type.
AddedFitting ==
    /\ call.op = "add_keyed_values"
    /\ call.instance_id = InstanceId(call.type)
    /\ call.values = ValuesOf(call.type)

\* Its key has the length of the writer's keys_size, and is not empty.
KeyOfKeysSize == call.key # <<>> /\ PyInt(Len(call.key)) = call.before.keys_size

IsAscii(str) == \A i \in 1..Len(str) : str[i] <= 127

\* The call returned and the entry is the last one of the buffer.
Accepted ==
    /\ raised = "None"
    /\ added # <<>>
    /\ added[Len(added)] = [key |-> call.key, instance_id |-> call.instance_id,
                            type |-> call.type, values |-> call.values]
    /\ Len(writer.byte_buffer) > Len(call.before.byte_buffer)
    /\ Slice(writer.byte_buffer, 0, Len(call.before.byte_buffer)) = call.before.byte_buffer

\* The call raised ValueError and left the writer as it was.
RejectedWithValueError == raised = "ValueError" /\ writer = call.before

\* C5 as it is written: every add_keyed_values_<type> raises ValueError when the
\* key is empty or its length differs from keys_size, whatever was added
\* before, and accepts a key of exactly keys_size characters.
KeyLengthDecides ==
    AddedFitting =>
        /\ ~KeyOfKeysSize => RejectedWithValueError
        /\ KeyOfKeysSize => Accepted

\* C5, amended: every add_keyed_values_<type> raises ValueError when the key is
\* empty or its length differs from keys_size, whatever was added before; it
\* accepts a key of exactly keys_size ASCII characters, and raises
\* UnicodeEncodeError, a ValueError, for a key of keys_size characters one of
\* which is not ASCII.
KeyLengthAndAsciiDecide ==
    AddedFitting =>
        /\ ~KeyOfKeysSize => RejectedWithValueError
        /\ (KeyOfKeysSize /\ IsAscii(call.key)) => Accepted
        /\ (KeyOfKeysSize /\ ~IsAscii(call.key)) =>
                (raised = "UnicodeEncodeError" /\ writer = call.before)

\* A key of two characters was refused by a writer of keys_size 1 that holds
\* two entries.
KeyLengthWitness ==
    /\ AddedFitting
    /\ call.key = KeyUI
    /\ call.before.keys_size = PyInt(1)
    /\ Len(added) = 2
    /\ RejectedWithValueError

(***************************************************************************)
(* Files and what happens to them before they are read.                    *)
(***************************************************************************)
\* Entries of a file built outside the writer.  Of supported types: two uint8
\* (5, 7), one int16 (-2), one float32 (1.5).
EntryUint8 == [data |-> <<5, 7>>, key |-> KeyA, instance_id |-> 1, type |-> UINT8, count |-> 2]

EntryInt16 == [data |-> <<254, 255>>, key |-> KeyB, instance_id |-> 2, type |-> INT16, count |-> 1]

EntryFloat32 ==
    [data |-> <<63, 192, 0, 0>>, key |-> KeyA, instance_id |-> 3, type |-> FLOAT32, count |-> 1]

\* Of the declared types the reader has no case for, and of a tag that is not
\* in the type table.
EntryBlob == [data |-> <<9>>, key |-> KeyB, instance_id |-> 4, type |-> BLOB, count |-> 1]

EntryBoolean == [data |-> <<1>>, key |-> KeyA, instance_id |-> 5, type |-> BOOLEAN_TAG, count |-> 1]

EntryString ==
    [data |-> <<104, 105>>, key |-> KeyB, instance_id |-> 6, type |-> STRING_TAG, count |-> 2]

UnknownTag == CHOOSE t \in 1..255 : t \notin ValueType

EntryUnknown == [data |-> <<>>, key |-> KeyA, instance_id |-> 7, type |-> UnknownTag, count |-> 0]

SupportedEntries == {EntryUint8, EntryInt16, EntryFloat32}

UnsupportedEntries == {EntryBlob, EntryBoolean, EntryString, EntryUnknown}

\* The sequences of at most n elements of S.
SeqsUpTo(S, n) == UNION {[1..k -> S] : k \in 0..n}

\* The last byte of the file is changed.
CorruptLastByte ==
    /\ Untouched
    /\ \E byte \in Flips(file.data[Len(file.data)]) : CorruptByte(Len(file.data), byte)

\* Any byte of the file is changed.
CorruptAnyByte ==
    /\ Untouched
    /\ \E pos \in 1..Len(file.data) :
          \E byte \in Flips(file.data[pos]) : CorruptByte(pos, byte)

\* A byte of the header is changed.
CorruptHeaderByte ==
    /\ Untouched
    /\ \E pos \in 1..HEADER_SIZE :
          \E byte \in Flips(file.data[pos]) : CorruptByte(pos, byte)

(***************************************************************************)
(* A written file with its footer, one byte of it changed, then read.      *)
(***************************************************************************)
\* The file at the path, if there is one, is as it was written.
Unchanged == IF origin.kind = "none" THEN TRUE ELSE origin.tamper = "none"

\* No reader was made yet.
Unopened == opened.kind = "none"

\* Entries are added, the file is written with its footer, one byte of it
\* changes, and it is opened.
NextDigest ==
    \/ Unwritten /\ \E type \in {UINT8, INT32} :
            AddKeyedValues(type, KeyA, InstanceId(type), IntegerList(type))
    \/ Unchanged /\ Unopened /\ \E auto_update \in BOOLEAN : Write(auto_update, TRUE)
    \/ CorruptAnyByte
    \/ ReaderInit

SpecDigest == Init /\ [][NextDigest]_vars

\* GBKFCoreReader was called on a file the writer wrote with add_footer = True.
OpenedFootered == opened.kind = "writer" /\ opened.add_footer

\* One byte of the region before the footer was changed before the call.
BodyByteChanged == opened.tamper = "byte" /\ opened.at \in 1..Len(opened.body)

\* C6 as it is written: verifies_sha() returns True on the unmodified file and
\* False when any single byte before the final 32 bytes was changed.
DigestTellsEveryChange ==
    OpenedFootered =>
        /\ opened.tamper = "none" => (reader # None /\ verifies_sha(reader))
        /\ BodyByteChanged => (reader # None /\ ~verifies_sha(reader))

\* C6, amended: verifies_sha() returns True on the unmodified file, and False
\* when any single byte after the 4 bytes of the magic and before the final
\* 32 bytes was changed; when a byte of the magic was changed the constructor
\* raises ValueError and there is no reader to ask.
DigestTellsChangeAfterMagic ==
    OpenedFootered =>
        /\ opened.tamper = "none" => (reader # None /\ verifies_sha(reader))
        /\ (BodyByteChanged /\ opened.at > GBKF_KEYWORD_SIZE) =>
                (reader # None /\ ~verifies_sha(reader))
        /\ (BodyByteChanged /\ opened.at <= GBKF_KEYWORD_SIZE) =>
                /\ reader = None
                /\ call.op = "GBKFCoreReader" => raised = "ValueError"

\* A byte of the second entry of a file was changed and verifies_sha() is False.
DigestTellsChangeWitness ==
    /\ OpenedFootered
    /\ Len(opened.entries) = 2
    /\ opened.tamper = "byte"
    /\ opened.at = Len(opened.body)
    /\ reader # None
    /\ ~verifies_sha(reader)

(***************************************************************************)
(* Files without a footer, or with a footer whose last byte was changed.   *)
(***************************************************************************)
NextFooter ==
    \/ \E type \in {UINT8, INT32} :
            AddKeyedValues(type, KeyA, InstanceId(type), IntegerList(type))
    \/ \E add_footer \in BOOLEAN : Write(TRUE, add_footer)
    \/ \E entries \in SeqsUpTo(SupportedEntries, MaxEntries), footer \in BOOLEAN :
            PutFile("reader", entries, footer)
    \/ CorruptLastByte
    \/ ReaderInit
    \/ GetKeyedValues

SpecFooter == Init /\ [][NextFooter]_vars

\* GBKFCoreReader was called on a valid file (written with auto_update = True,
\* or built with as many entries as its header announces) that has no footer,
\* or a footer whose last byte was changed.
OpenedWithoutDigest ==
    /\ \/ opened.kind = "writer" /\ opened.auto_update
       \/ opened.kind = "foreign"
    /\ \/ ~opened.add_footer /\ opened.tamper = "none"
       \/ /\ opened.add_footer
          /\ opened.tamper = "byte"
          /\ opened.at = Len(opened.body) + sha256_size

\* The reader of the same file with its footer intact.
IntactReader == GBKFCoreReader(opened.body \o sha256(opened.body)).val

\* The header values of a file built outside the writer.
ForeignHeader ==
    [gbkf_version |-> PyInt(1), specification_id |-> PyInt(0),
     specification_version |-> PyInt(0), keys_size |-> PyInt(1),
     keyed_values_nb |-> PyInt(Len(opened.entries))]

WrittenHeader == IF opened.kind = "writer" THEN opened.header ELSE ForeignHeader

\* C7: on a valid file whose last byte was changed, or that was written without
\* a footer, the constructor returns, the header accessors give the written
\* values, get_keyed_values() gives what it gives on the intact file, and
\* verifies_sha() is False.
DigestNeverFails ==
    OpenedWithoutDigest =>
        /\ reader # None
        /\ get_gbkf_version(reader) = WrittenHeader.gbkf_version
        /\ get_specification_id(reader) = WrittenHeader.specification_id
        /\ get_specification_version(reader) = WrittenHeader.specification_version
        /\ get_keys_size(reader) = WrittenHeader.keys_size
        /\ get_keyed_values_nb(reader) = WrittenHeader.keyed_values_nb
        /\ verifies_sha(reader) = FALSE
        /\ result # None =>
              LET intact == get_keyed_values(IntactReader)
              IN  /\ result.exc = intact.exc
                  /\ result.exc = "None" => result.val = intact.val

\* Two entries were decoded from a file whose last byte was changed.
DigestNeverFailsWitness ==
    /\ OpenedWithoutDigest
    /\ opened.kind = "foreign"
    /\ opened.add_footer
    /\ opened.entries = <<EntryUint8, EntryInt16>>
    /\ reader # None
    /\ ~verifies_sha(reader)
    /\ result # None
    /\ result.exc = "None"
    /\ result.val[KeyA] = <<[instance_id |-> PyInt(1), type |-> UINT8,
                             values |-> <<PyInt(5), PyInt(7)>>]>>
    /\ result.val[KeyB] = <<[instance_id |-> PyInt(2), type |-> INT16,
                             values |-> <<PyInt(-2)>>]>>

(***************************************************************************)
(* Files with entries of types the reader has no case for.                 *)
(***************************************************************************)
NextTags ==
    \/ \E layout \in {"reader", "writer"}, footer \in BOOLEAN :
          \E entries \in SeqsUpTo(SupportedEntries \cup UnsupportedEntries, MaxEntries) :
              PutFile(layout, entries, footer)
    \/ ReaderInit
    \/ GetKeyedValues

SpecTags == Init /\ [][NextTags]_vars

\* get_keyed_values() was called on a file, as it was built, one of whose
\* entries has a type tag that is not one of the ten supported ones.
DecodedUnsupportedTag ==
    /\ result # None
    /\ opened.kind = "foreign"
    /\ opened.tamper = "none"
    /\ \E i \in 1..Len(opened.entries) : opened.entries[i].type \notin SupportedTypes

\* C8: when an entry of the file has a type tag other than the ten supported
\* ones (a tag that is not in the type table, or BLOB, BOOLEAN or STRING),
\* get_keyed_values() raises ValueError and returns nothing, whatever entries
\* come before it.
UnsupportedTagRaises ==
    DecodedUnsupportedTag => (result.exc = "ValueError" /\ result.val = None)

\* A BLOB entry after a uint8 entry, the count before the type tag as the
\* reader reads them: the first entry was decoded, then the call raised.
UnsupportedTagRaisesWitness ==
    /\ DecodedUnsupportedTag
    /\ opened.layout = "reader"
    /\ opened.entries = <<EntryUint8, EntryBlob>>
    /\ result.exc = "ValueError"
    /\ result.entries = 1

(***************************************************************************)
(* Files cut short, and files with a byte of their header changed.         *)
(***************************************************************************)
NextDamaged ==
    \/ \E entries \in SeqsUpTo(SupportedEntries, MaxEntries), footer \in BOOLEAN :
          PutFile("reader", entries, footer)
    \/ \E length \in 0..(IF file.exists THEN Len(file.data) - 1 ELSE -1) :
          Truncate(length)
    \/ CorruptHeaderByte
    \/ ReaderInit
    \/ ReadHeader

SpecDamaged == Init /\ [][NextDamaged]_vars

\* GBKFCoreReader was called on a path that holds a file.
OpenedFile == opened.kind # "none"

\* The file is shorter than the header, or does not start with b"gbkf".
NoHeader(data) ==
    \/ Len(data) < HEADER_SIZE
    \/ Slice(data, 0, GBKF_KEYWORD_SIZE) # GBKF_KEYWORD

\* C9: the constructor raises ValueError if and only if the file is shorter
\* than the 16 bytes of the header or its first 4 bytes are not b"gbkf"; in
\* every other case it returns and none of the five header accessors gives None.
ConstructorRaisesIffNoHeader ==
    OpenedFile =>
        /\ reader = None <=> NoHeader(opened.data)
        /\ (reader = None /\ call.op = "GBKFCoreReader") => raised = "ValueError"
        /\ reader # None =>
              /\ get_gbkf_version(reader) # None
              /\ get_specification_id(reader) # None
              /\ get_specification_version(reader) # None
              /\ get_keys_size(reader) # None
              /\ get_keyed_values_nb(reader) # None

\* The constructor raised ValueError on a file of 15 bytes.
ConstructorRaisesWitness ==
    /\ OpenedFile
    /\ Len(opened.data) = HEADER_SIZE - 1
    /\ Slice(opened.data, 0, GBKF_KEYWORD_SIZE) = GBKF_KEYWORD
    /\ reader = None
    /\ call.op = "GBKFCoreReader"
    /\ raised = "ValueError"

(***************************************************************************)
(* Files cut short, decoded.                                               *)
(***************************************************************************)
NextTruncated ==
    \/ \E entries \in SeqsUpTo(SupportedEntries, MaxEntries), footer \in BOOLEAN :
          PutFile("reader", entries, footer)
    \/ \E length \in 0..(IF file.exists THEN Len(file.data) - 1 ELSE -1) :
          Truncate(length)
    \/ ReaderInit
    \/ GetKeyedValues

SpecTruncated == Init /\ [][NextTruncated]_vars

\* get_keyed_values() was called on a file that ends inside one of the entries
\* its header announces.
DecodedCutEntries ==
    /\ result # None
    /\ opened.kind = "foreign"
    /\ opened.tamper = "truncated"
    /\ opened.at >= HEADER_SIZE
    /\ opened.at < Len(opened.body)

\* C10: when the file ends before all the entries announced by the header are
\* complete, get_keyed_values() raises and returns no result.
CutEntriesRaise ==
    DecodedCutEntries => result.exc # "None"

(***************************************************************************)
(* Where the decoding of a file with a footer stops.                       *)
(***************************************************************************)
\* Files of the writer, with the count of the header set by the write or left
\* as it is, and files built outside it, all with their footer.
NextCursor ==
    \/ Unwritten /\ \E type \in {UINT8, INT16, UINT64} :
            AddKeyedValues(type, KeyA, InstanceId(type), IntegerList(type))
    \/ \E auto_update \in BOOLEAN : Write(auto_update, TRUE)
    \/ \E entries \in SeqsUpTo(SupportedEntries, MaxEntries) :
            PutFile("reader", entries, TRUE)
    \/ ReaderInit
    \/ GetKeyedValues

SpecCursor == Init /\ [][NextCursor]_vars

\* get_keyed_values() returned on a file that has its footer and was not
\* changed since it was made.
ReturnedOnFootered ==
    /\ result # None
    /\ result.exc = "None"
    /\ opened.kind # "none"
    /\ opened.add_footer
    /\ opened.tamper = "none"

\* C11: when get_keyed_values() returns, it has read keyed_values_nb entries
\* from offset 16 on and its cursor is at the first byte of the 32-byte
\* digest: no byte of the entries is left unread and no byte of the digest
\* was read as an entry.
CursorStopsAtDigest ==
    ReturnedOnFootered =>
        /\ PyInt(result.entries) = get_keyed_values_nb(reader)
        /\ result.current_pos = Len(opened.data) - sha256_size

(***************************************************************************)
(* The count of entries in the header of a written file.                   *)
(***************************************************************************)
\* The count is set by hand, entries are added (the key of two characters is
\* refused), and the file is written with the count updated or left as it is.
NextCount ==
    \/ Reset
    \/ \E uint32 \in {PyInt(1), PyInt(7)} : SetKeyedValuesNb(uint32)
    \/ \E type \in {UINT8, FLOAT32}, key \in {KeyA, KeyUI} :
            AddKeyedValues(type, key, InstanceId(type), ValuesOf(type))
    \/ \E auto_update \in BOOLEAN, add_footer \in BOOLEAN : Write(auto_update, add_footer)

SpecCount == Init /\ [][NextCount]_vars

\* The count of entries in the header of a buffer or of a file.
CountIn(data) ==
    from_bytes(Slice(data, KEYED_VALUES_NB_START, HEADER_SIZE), "little", FALSE)

\* The bytes a value of the type takes.
ValueWidth(type) ==
    IF type \in IntegerTypes THEN Width(type)
    ELSE IF type = FLOAT32 THEN single_size ELSE double_size

\* The bytes the entries take: key, instance id, type, count and values.
RECURSIVE EntriesSize(_)
EntriesSize(entries) ==
    IF entries = <<>> THEN 0
    ELSE Len(Head(entries).key) + 9
            + Len(Head(entries).values) * ValueWidth(Head(entries).type)
            + EntriesSize(Tail(entries))

\* The file at the path was written by the writer and holds its entries.
WrittenFile ==
    /\ file.exists
    /\ origin.kind = "writer"
    /\ Len(origin.body) = HEADER_SIZE + EntriesSize(origin.entries)

\* C12: in every file write() emits, whatever reset, set_* and
\* add_keyed_values_* calls came before and whatever auto_update is, the count
\* of the header is the number of entries in the body.
EntryCountIsEntriesWritten ==
    WrittenFile => CountIn(file.data) = PyInt(Len(origin.entries))

\* The last call was write(auto_update=True).
WroteWithAutoUpdate == call.op = "write" /\ call.auto_update

\* C13: write(auto_update=True) returns and stores in the count of the header,
\* in the buffer and in the file, the number of add_keyed_values_* calls that
\* succeeded since the construction or the last reset(), whatever
\* set_keyed_values_nb had set; an entry with a key already used counts, a
\* refused one does not.
AutoUpdateCountsEntries ==
    WroteWithAutoUpdate =>
        /\ raised = "None"
        /\ WrittenFile
        /\ origin.entries = added
        /\ CountIn(file.data) = PyInt(Len(added))
        /\ CountIn(writer.byte_buffer) = PyInt(Len(added))

\* Two entries with the same key were written by write(auto_update=True)
\* after set_keyed_values_nb(7): the count of the file is 2.
AutoUpdateCountsWitness ==
    /\ WroteWithAutoUpdate
    /\ CountIn(call.before.byte_buffer) = PyInt(7)
    /\ Len(added) = 2
    /\ added[1].key = added[2].key
    /\ CountIn(file.data) = PyInt(2)

(***************************************************************************)
(* reset() after the other operations of the writer.                       *)
(***************************************************************************)
\* The writer is set and filled, written, and reset at any point.
NextReset ==
    \/ Reset
    \/ Unwritten /\ \E uint8 \in {PyInt(0), Succ(uint_8_max)} : SetGbkfVersion(uint8)
    \/ Unwritten /\ SetSpecificationId(uint_32_max)
    \/ Unwritten /\ SetSpecificationVersion(PyInt(258))
    \/ Unwritten /\ \E uint8 \in {PyInt(0), PyInt(2), uint_8_max} : SetKeysSize(uint8)
    \/ Unwritten /\ SetKeyedValuesNb(PyInt(7))
    \/ Unwritten /\ \E type \in {UINT8, FLOAT64}, key \in {KeyA, KeyUI} :
            AddKeyedValues(type, key, InstanceId(type), ValuesOf(type))
    \/ \E auto_update \in BOOLEAN : Write(auto_update, TRUE)

SpecReset == Init /\ [][NextReset]_vars

\* The buffer of a writer that was just made: b"gbkf", version 1, ids and
\* version of the specification 0, keys of 1 byte, no entry.
FreshBuffer == <<103, 98, 107, 102>> \o <<1>> \o <<0, 0, 0, 0>> \o <<0, 0>> \o <<1>> \o <<0, 0, 0, 0>>

\* C14: reset() never raises, whatever was called before, and leaves the writer
\* as GBKFCoreWriter() makes it: the 16 bytes of the default header, no entry,
\* a counter of 0 and no key seen, so that set_keys_size accepts every value
\* from 1 to 255.
ResetGivesNewWriter ==
    call.op = "reset" =>
        /\ raised = "None"
        /\ writer = NewWriter
        /\ writer.byte_buffer = FreshBuffer
        /\ writer.keyed_values_nb = PyInt(0)
        /\ writer.keys_size = PyInt(1)
        /\ writer.keys = <<>>
        /\ added = <<>>
        /\ \A n \in 1..255 : set_keys_size(writer, PyInt(n)).exc = "None"

\* reset() was called on a writer that was written, with two entries under
\* keys of two characters and a header that was changed.
ResetGivesNewWriterWitness ==
    /\ call.op = "reset"
    /\ file.exists
    /\ call.before.keys = <<KeyUI>>
    /\ call.before.keyed_values_nb = PyInt(2)
    /\ call.before.keys_size = PyInt(2)
    /\ Slice(call.before.byte_buffer, 0, HEADER_SIZE) # FreshBuffer
    /\ writer = NewWriter

(***************************************************************************)
(* The setters of the header, at and beyond the bounds of their fields.    *)
(***************************************************************************)
SetterOps ==
    {"set_gbkf_version", "set_specification_id", "set_specification_version",
     "set_keys_size", "set_keyed_values_nb"}

\* Where the field of a setter starts in the buffer, and its bytes.
FieldStart(op) ==
    CASE op = "set_gbkf_version" -> GBKF_VERSION_START
      [] op = "set_specification_id" -> SPECIFICATION_ID_START
      [] op = "set_specification_version" -> SPECIFICATION_VERSION_START
      [] op = "set_keys_size" -> KEYS_SIZE_START
      [] op = "set_keyed_values_nb" -> KEYED_VALUES_NB_START

FieldSize(op) ==
    CASE op = "set_gbkf_version" -> GBKF_VERSION_SIZE
      [] op = "set_specification_id" -> SPECIFICATION_SIZE
      [] op = "set_specification_version" -> SPECIFICATION_VERSION_SIZE
      [] op = "set_keys_size" -> KEYS_SIZE_SIZE
      [] op = "set_keyed_values_nb" -> KEYED_VALUES_NB_SIZE

\* The range of the field: 0, or 1 for the size of the keys, to the greatest
\* unsigned value of its bytes.
FieldMin(op) == IF op = "set_keys_size" THEN PyInt(1) ELSE PyInt(0)

FieldMax(op) == MkInt(FALSE, Repeat(255, FieldSize(op)))

InField(op, value) == ~IntLess(value, FieldMin(op)) /\ ~IntGreater(value, FieldMax(op))

\* The two bounds of the field and the values next to them outside it.
SetterValues(op) ==
    {Pred(FieldMin(op)), FieldMin(op), FieldMax(op), Succ(FieldMax(op))}

NextSetters ==
    \/ \E uint8 \in SetterValues("set_gbkf_version") : SetGbkfVersion(uint8)
    \/ \E uint32 \in SetterValues("set_specification_id") : SetSpecificationId(uint32)
    \/ \E uint16 \in SetterValues("set_specification_version") :
            SetSpecificationVersion(uint16)
    \/ \E uint8 \in SetterValues("set_keys_size") : SetKeysSize(uint8)
    \/ \E uint32 \in SetterValues("set_keyed_values_nb") : SetKeyedValuesNb(uint32)
    \/ AddKeyedValues(UINT8, KeyA, InstanceId(UINT8), IntegerList(UINT8))

SpecSetters == Init /\ [][NextSetters]_vars

\* The last call was one of the five setters of the header.
SetterCalled == call.op \in SetterOps

\* The call raised ValueError and left the writer as it was.
SetterRefused == raised = "ValueError" /\ writer = call.before

\* The call returned: the value is in the bytes of the field, least
\* significant byte first, and no other byte of the buffer changed.
SetterWrote ==
    /\ raised = "None"
    /\ Len(writer.byte_buffer) = Len(call.before.byte_buffer)
    /\ from_bytes(Slice(writer.byte_buffer, FieldStart(call.op),
                        FieldStart(call.op) + FieldSize(call.op)),
                  "little", FALSE) = call.value
    /\ \A i \in 1..Len(writer.byte_buffer) :
            (i <= FieldStart(call.op) \/ i > FieldStart(call.op) + FieldSize(call.op))
                => writer.byte_buffer[i] = call.before.byte_buffer[i]
    /\ writer.keyed_values_nb = call.before.keyed_values_nb
    /\ writer.keys = call.before.keys
    /\ writer.keys_size = IF call.op = "set_keys_size" THEN call.value
                          ELSE call.before.keys_size

\* C15 as it is written: each setter of the header raises ValueError for a
\* value outside the range of its field and leaves the writer as it was, and
\* writes a value inside the range into the bytes of the field.
SetterRangeDecides ==
    SetterCalled =>
        /\ ~InField(call.op, call.value) => SetterRefused
        /\ InField(call.op, call.value) => SetterWrote

\* set_keys_size(value) on a writer that has seen a key of another length.
KeysOfAnotherSize ==
    /\ call.op = "set_keys_size"
    /\ \E i \in 1..Len(call.before.keys) : PyInt(Len(call.before.keys[i])) # call.value

\* C15, amended: each setter of the header raises ValueError for a value
\* outside the range of its field and leaves the writer as it was; it writes a
\* value inside the range into the bytes of the field, except set_keys_size on
\* a writer that holds a key of another length, which raises ValueError and
\* leaves the writer as it was.
SetterRangeAndKeysDecide ==
    SetterCalled =>
        /\ ~InField(call.op, call.value) => SetterRefused
        /\ (InField(call.op, call.value) /\ ~KeysOfAnotherSize) => SetterWrote
        /\ (InField(call.op, call.value) /\ KeysOfAnotherSize) => SetterRefused

\* set_specification_version(65536) was refused by a writer whose count is
\* 4294967295 and that holds an entry.
SetterRangeWitness ==
    /\ call.op = "set_specification_version"
    /\ call.value = Succ(FieldMax("set_specification_version"))
    /\ CountIn(call.before.byte_buffer) = FieldMax("set_keyed_values_nb")
    /\ Len(added) = 1
    /\ SetterRefused

(***************************************************************************)
(* The size of the keys, set again on a writer that holds entries.         *)
(***************************************************************************)
NextKeysSize ==
    \/ Reset
    \/ \E n \in 1..3 : SetKeysSize(PyInt(n))
    \/ \E type \in {UINT8, INT64, FLOAT32}, key \in {KeyA, KeyB, KeyUI} :
            AddKeyedValues(type, key, InstanceId(type), ValuesOf(type))

SpecKeysSize == Init /\ [][NextKeysSize]_vars

\* set_keys_size was called on a writer that holds an entry added since the
\* construction or the last reset().
KeysSizeSetOnEntries == call.op = "set_keys_size" /\ added # <<>>

\* The byte of the header that holds the size of the keys.
KeysSizeIn(buffer) ==
    from_bytes(Slice(buffer, KEYS_SIZE_START, KEYS_SIZE_START + KEYS_SIZE_SIZE),
               "little", FALSE)

\* C16: on a writer that holds an entry, set_keys_size(n) with n other than
\* the length of the keys of its entries raises ValueError and changes neither
\* the byte of the header nor the size the writer keeps; with the length of
\* those keys it returns and both hold that size.
KeysSizeKeptOnceEntries ==
    KeysSizeSetOnEntries =>
        /\ \A i \in 1..Len(added) : Len(added[i].key) = Len(added[1].key)
        /\ IF call.value # PyInt(Len(added[1].key))
           THEN /\ raised = "ValueError"
                /\ writer = call.before
           ELSE raised = "None"
        /\ KeysSizeIn(writer.byte_buffer) = PyInt(Len(added[1].key))
        /\ writer.keys_size = PyInt(Len(added[1].key))

\* set_keys_size(1) was refused by a writer holding two entries under a key
\* of two characters.
KeysSizeKeptWitness ==
    /\ KeysSizeSetOnEntries
    /\ call.value = PyInt(1)
    /\ Len(added) = 2
    /\ added[1].key = KeyUI
    /\ raised = "ValueError"
    /\ KeysSizeIn(writer.byte_buffer) = PyInt(2)

(***************************************************************************)
(* Entries the writer refuses.                                             *)
(***************************************************************************)
\* A value the type refuses: past the maximum of an integer type, 2^128 for
\* a single, infinity for a double.
RefusedValue(type) ==
    IF type \in IntegerTypes THEN Succ(TypeMax(type))
    ELSE IF type = FLOAT32 THEN Float(0, 1023 + 128, Repeat(0, 52))
    ELSE Float(0, 2047, Repeat(0, 52))

\* Lists of the type: one whose values fit, one whose last value is refused,
\* one whose first value is refused.
ListsWithRefused(type) ==
    {ValuesOf(type),
     Append(ValuesOf(type), RefusedValue(type)),
     <<RefusedValue(type)>> \o ValuesOf(type)}

\* Instance ids in 0..2^32-1 and out of it.
InstanceIds == {PyInt(1), PyInt(-1), Succ(uint_32_max)}

\* The arguments of the calls for the type: all accepted, one refused (the
\* key, the instance id or the list), or the three of them.
CallsWithRefused(type) ==
    LET calls == Keys \X InstanceIds \X ListsWithRefused(type)
        accepted == <<KeyA, PyInt(1), ValuesOf(type)>>
        refused == <<KeyUI, PyInt(-1), <<RefusedValue(type)>> \o ValuesOf(type)>>
    IN  {c \in calls : Cardinality({i \in 1..3 : c[i] # accepted[i]}) <= 1} \cup {refused}

NextRejected ==
    \/ \E type \in {INT8, UINT16, FLOAT32, FLOAT64} :
            \E c \in CallsWithRefused(type) :
                Unwritten /\ AddKeyedValues(type, c[1], c[2], c[3])
    \/ \E auto_update \in BOOLEAN, add_footer \in BOOLEAN : Write(auto_update, add_footer)

SpecRejected == Init /\ [][NextRejected]_vars

\* A writer after the add_keyed_values_* calls of the entries, in their order.
RECURSIVE Replay(_, _)
Replay(self, entries) ==
    IF entries = <<>> THEN self
    ELSE Replay(add_keyed_values(self, Head(entries).type, Head(entries).key,
                                 Head(entries).instance_id, Head(entries).values).val,
                Tail(entries))

\* The entries of a buffer: what follows its header.
EntriesIn(buffer) == Slice(buffer, HEADER_SIZE, Len(buffer))

\* The last call was an add_keyed_values_* that raised.
AddRaised == call.op = "add_keyed_values" /\ raised # "None"

\* C17: an add_keyed_values_* call that raises (key, instance id, or a value
\* of the list, the last one included) leaves the buffer, the counter of
\* entries and the list of keys as they were before the call; the writer
\* holds, and a later write() emits, the bytes of the accepted entries only.
RejectedAddLeavesWriter ==
    /\ AddRaised => writer = call.before
    /\ LET accepted == Replay(NewWriter, added)
       IN  /\ EntriesIn(writer.byte_buffer) = EntriesIn(accepted.byte_buffer)
           /\ writer.keys = accepted.keys
           /\ writer.keyed_values_nb = accepted.keyed_values_nb
    /\ (file.exists /\ origin.kind = "writer") =>
            /\ EntriesIn(origin.body) =
                    EntriesIn(Replay(NewWriter, origin.entries).byte_buffer)
            /\ Slice(file.data, 0, Len(origin.body)) = origin.body
            /\ Len(file.data) = Len(origin.body)
                                    + (IF origin.add_footer THEN sha256_size ELSE 0)

\* A list whose last value is refused was given to a writer holding an entry,
\* with a key and an instance id the writer accepts.
RejectedAddWitness ==
    /\ AddRaised
    /\ call.before.keyed_values_nb # NewWriter.keyed_values_nb
    /\ call.key = KeyA
    /\ call.instance_id = PyInt(1)
    /\ call.values = Append(ValuesOf(call.type), RefusedValue(call.type))

(***************************************************************************)
(* Entries that share a key.                                               *)
(***************************************************************************)
\* The entries of the sequence that have the key, in their order.
EntriesUnder(entries, key) == SelectSeq(entries, LAMBDA e : e.key = key)

\* What get_keyed_values() holds for an entry: its instance id, its type tag
\* and its values.
KeyedEntry(e) == [instance_id |-> e.instance_id, type |-> e.type, values |-> e.values]

\* The number of entries in all the lists of a dictionary.
RECURSIVE EntriesOfDict(_)
EntriesOfDict(keyed_values) ==
    IF DOMAIN keyed_values = {} THEN 0
    ELSE LET key == CHOOSE k \in DOMAIN keyed_values : TRUE
         IN  Len(keyed_values[key])
                + EntriesOfDict([k \in (DOMAIN keyed_values) \ {key} |-> keyed_values[k]])

\* Two entries of the sequence have the same key.
SharesKey(entries) ==
    \E i, j \in 1..Len(entries) : i # j /\ entries[i].key = entries[j].key

\* C18: entries that share a key are all kept.  The writer accepts a key it
\* has already used, and get_keyed_values() on the file written from it maps
\* each key to all the entries written with that key, in the order of the
\* file; the lists hold as many entries as the count of the header says.
SharedKeysAllKept ==
    /\ (call.op = "add_keyed_values"
            /\ \E i \in 1..Len(call.before.keys) : call.before.keys[i] = call.key)
                => raised = "None" /\ writer.keys = call.before.keys
    /\ (ReadsWritten /\ SharesKey(opened.entries) /\ result # None) =>
            /\ result.exc = "None"
            /\ DOMAIN result.val = {opened.entries[i].key : i \in 1..Len(opened.entries)}
            /\ \A key \in DOMAIN result.val :
                    LET under == EntriesUnder(opened.entries, key)
                    IN  result.val[key] = [j \in 1..Len(under) |-> KeyedEntry(under[j])]
            /\ PyInt(EntriesOfDict(result.val)) = get_keyed_values_nb(reader)

(***************************************************************************)
(* Calling get_keyed_values() again.                                       *)
(***************************************************************************)
NextRepeat ==
    \/ \E entries \in SeqsUpTo(SupportedEntries \cup {EntryBlob}, MaxEntries),
          footer \in BOOLEAN :
            PutFile("reader", entries, footer)
    \/ CorruptLastByte
    \/ \E length \in {HEADER_SIZE + 7, HEADER_SIZE + 12} : Truncate(length)
    \/ ReaderInit
    \/ ReadHeader
    \/ GetKeyedValues

SpecRepeat == Init /\ [][NextRepeat]_vars

\* The last call was a get_keyed_values() that was not the first one on its
\* reader.
CalledAgain == call.op = "get_keyed_values" /\ call.previous # None

\* C19: get_keyed_values() is idempotent.  A call on a reader gives what the
\* call before it on the same reader gave (the same exception, or the same keys
\* with the same entries in the same order), and no call changes the header
\* fields of the reader or what verifies_sha() returns.
GetKeyedValuesIdempotent ==
    /\ call.op = "get_keyed_values" =>
            /\ reader = call.before
            /\ get_gbkf_version(reader) = get_gbkf_version(call.before)
            /\ get_specification_id(reader) = get_specification_id(call.before)
            /\ get_specification_version(reader) = get_specification_version(call.before)
            /\ get_keys_size(reader) = get_keys_size(call.before)
            /\ get_keyed_values_nb(reader) = get_keyed_values_nb(call.before)
            /\ verifies_sha(reader) = verifies_sha(call.before)
    /\ CalledAgain =>
            /\ result.exc = call.previous.exc
            /\ result.val = call.previous.val

\* The second call on a reader returned two entries under one key.
GetKeyedValuesIdempotentWitness ==
    /\ CalledAgain
    /\ result.exc = "None"
    /\ KeyA \in DOMAIN result.val
    /\ Len(result.val[KeyA]) = 2

(***************************************************************************)
(* The byte order of the fields.                                           *)
(***************************************************************************)
NextByteOrder ==
    \/ \E uint32 \in {PyInt(1), PyInt(258)} : SetSpecificationId(uint32)
    \/ \E type \in {INT16, UINT32, FLOAT32, FLOAT64} :
            AddKeyedValues(type, KeyA, InstanceId(type), ValuesOf(type))
    \/ \E add_footer \in BOOLEAN : Write(TRUE, add_footer)

SpecByteOrder == Init /\ [][NextByteOrder]_vars

\* A value of the type with its most significant byte first.
MostSignificantFirst(type, value) ==
    IF type \in IntegerTypes THEN to_bytes(value, Width(type), "big", Signed(type)).val
    ELSE IF type = FLOAT32 THEN pack_single(value).val
    ELSE pack_double(value).val

\* The fields of more than one byte of the entries that start at pos in the
\* buffer: each one as the pair of its bytes in the buffer and of its value
\* with the most significant byte first.
RECURSIVE EntryFields(_, _, _)
EntryFields(buffer, pos, entries) ==
    IF entries = <<>> THEN {}
    ELSE LET e == Head(entries)
             id_pos == pos + Len(e.key)
             values_pos == id_pos + 9
             width == ValueWidth(e.type)
         IN  {<<Slice(buffer, id_pos, id_pos + 4),
                to_bytes(e.instance_id, 4, "big", FALSE).val>>,
              <<Slice(buffer, id_pos + 5, id_pos + 9),
                to_bytes(PyInt(Len(e.values)), 4, "big", FALSE).val>>}
             \cup {<<Slice(buffer, values_pos + (i - 1) * width, values_pos + i * width),
                     MostSignificantFirst(e.type, e.values[i])>> : i \in 1..Len(e.values)}
             \cup EntryFields(buffer, values_pos + Len(e.values) * width, Tail(entries))

\* The fields of more than one byte of the header of the buffer.
HeaderFields(buffer, h) ==
    {<<Slice(buffer, SPECIFICATION_ID_START, SPECIFICATION_VERSION_START),
       to_bytes(h.specification_id, SPECIFICATION_SIZE, "big", FALSE).val>>,
     <<Slice(buffer, SPECIFICATION_VERSION_START, KEYS_SIZE_START),
       to_bytes(h.specification_version, SPECIFICATION_VERSION_SIZE, "big", FALSE).val>>,
     <<Slice(buffer, KEYED_VALUES_NB_START, HEADER_SIZE),
       to_bytes(h.keyed_values_nb, KEYED_VALUES_NB_SIZE, "big", FALSE).val>>}

\* The field is in the byte order.
InByteOrder(field, byteorder) ==
    field[1] = IF byteorder = "big" THEN field[2] ELSE Reverse(field[2])

\* C20: one byte order is used for the whole file.  The fields of more than
\* one byte the writer holds and writes (those of the header, the instance id,
\* the count of values, the integers, the singles and the doubles) are all
\* least significant byte first, or all most significant byte first.
OneByteOrder ==
    \E byteorder \in {"little", "big"} :
        /\ \A field \in HeaderFields(writer.byte_buffer, header)
                            \cup EntryFields(writer.byte_buffer, HEADER_SIZE, added) :
                InByteOrder(field, byteorder)
        /\ (file.exists /\ origin.kind = "writer") =>
                \A field \in HeaderFields(file.data, origin.header)
                                \cup EntryFields(file.data, HEADER_SIZE, origin.entries) :
                    InByteOrder(field, byteorder)

(***************************************************************************)
(* What a call changes in the buffer.                                      *)
(***************************************************************************)
NextAppend ==
    \/ Unwritten /\ Reset
    \/ Unwritten /\ SetGbkfVersion(PyInt(2))
    \/ Unwritten /\ SetSpecificationId(PyInt(258))
    \/ Unwritten /\ SetSpecificationVersion(PyInt(3))
    \/ Unwritten /\ \E n \in {1, 2} : SetKeysSize(PyInt(n))
    \/ Unwritten /\ SetKeyedValuesNb(PyInt(7))
    \/ Unwritten /\ \E type \in {INT32, FLOAT64}, key \in {KeyA, KeyUI} :
            AddKeyedValues(type, key, InstanceId(type), ValuesOf(type))
    \/ Write(TRUE, TRUE)

SpecAppend == Init /\ [][NextAppend]_vars

\* The last call was an add_keyed_values_* that returned.
AddReturned == call.op = "add_keyed_values" /\ raised = "None"

\* The last call was a setter of the header that returned.
SetterReturned == call.op \in SetterOps /\ raised = "None"

\* C21: the buffer is append-only for entries.  An add_keyed_values_* that
\* returns leaves every byte the buffer held and appends
\* key_width + 9 + count x width bytes; a setter of the header changes only
\* the bytes of its field; and the buffer always holds 16 bytes or more and
\* starts with the magic.
BufferAppendOnly ==
    /\ Len(writer.byte_buffer) >= HEADER_SIZE
    /\ Slice(writer.byte_buffer, 0, GBKF_KEYWORD_SIZE) = GBKF_KEYWORD
    /\ AddReturned =>
            /\ Slice(writer.byte_buffer, 0, Len(call.before.byte_buffer))
                    = call.before.byte_buffer
            /\ Len(writer.byte_buffer) =
                    Len(call.before.byte_buffer) + ToNat(call.before.keys_size) + 9
                        + Len(call.values) * ValueWidth(call.type)
    /\ SetterReturned =>
            /\ Len(writer.byte_buffer) = Len(call.before.byte_buffer)
            /\ \A i \in 1..Len(writer.byte_buffer) :
                    (i <= FieldStart(call.op) \/ i > FieldStart(call.op) + FieldSize(call.op))
                        => writer.byte_buffer[i] = call.before.byte_buffer[i]

\* A second entry was appended to a buffer whose header a setter had changed.
BufferAppendOnlyWitness ==
    /\ AddReturned
    /\ Len(call.before.byte_buffer) > HEADER_SIZE
    /\ Slice(call.before.byte_buffer, 0, HEADER_SIZE) # FreshBuffer
    /\ call.type = FLOAT64

(***************************************************************************)
(* The destination while write runs.                                       *)
(***************************************************************************)
NextWriteSteps ==
    \/ \E type \in {UINT8, FLOAT32} :
            ~InWrite /\ AddKeyedValues(type, KeyA, InstanceId(type), ValuesOf(type))
    \/ \E auto_update \in BOOLEAN, add_footer \in BOOLEAN :
            WriteUpdate(auto_update, add_footer)
    \/ \E ok \in BOOLEAN : WriteOpen(ok)
    \/ \E ok \in BOOLEAN : WriteEmit(ok)
    \/ \E ok \in BOOLEAN : WriteFooter(ok)

SpecWriteSteps == Init /\ [][NextWriteSteps]_vars

\* The body write emits and the footer it appends.
WrittenBody == FileOf(writer.byte_buffer)

WrittenBodyAndFooter == FileOf(writer.byte_buffer \o sha256(writer.byte_buffer))

FloatNegated(v) == Float(1 - v.s, v.e, v.m)

\* The maximum the encoder of the type compares with.
FloatMax(type) == IF type = FLOAT32 THEN single_max ELSE double_max

\* 2^128, the first power of two above the singles, and infinity.
TwoTo128 == Float(0, 1023 + 128, Repeat(0, 52))

Infinity == Float(0, 2047, Repeat(0, 52))

NaN == Float(0, 2047, <<1>> \o Repeat(0, 51))

\* 2^127, below the maximum of the singles.
TwoTo127 == Float(0, 1023 + 127, Repeat(0, 52))

\* Values below the two maxima, at them and above them, a NaN, and the
\* negatives of all of them.
FloatValues ==
    LET positive == {FloatList[1], TwoTo127, single_max, TwoTo128, double_max,
                     Infinity, NaN}
    IN  positive \cup {FloatNegated(v) : v \in positive}

\* Each list is given to a writer that holds no entry.
NextFloats ==
    \/ Reset
    \/ \E type \in FloatTypes, value \in FloatValues :
            \E values \in {<<value>>, <<FloatList[2], value>>, <<value, FloatList[1]>>} :
                added = <<>> /\ AddKeyedValues(type, KeyA, PyInt(1), values)

SpecFloats == Init /\ [][NextFloats]_vars

\* The last call was an add_keyed_values_float32 or _float64.
AddedFloats == call.op = "add_keyed_values" /\ call.type \in FloatTypes

\* A value of the list is greater than the maximum of the type.
AboveFloatMax ==
    \E i \in 1..Len(call.values) : FloatGreater(call.values[i], FloatMax(call.type))

\* The bytes of the values of the list, as struct.pack gives them.
RECURSIVE PackedFloats(_, _)
PackedFloats(type, values) ==
    IF values = <<>> THEN <<>>
    ELSE (IF type = FLOAT32 THEN pack_single(Head(values)).val
          ELSE pack_double(Head(values)).val) \o PackedFloats(type, Tail(values))

\* C23: the encoders of the floats check the upper bound only.
\* add_keyed_values_float32 and _float64 raise ValueError when, and only
\* when, a value is greater than the maximum of the type; a negative value
\* is compared with nothing, however large its magnitude: a double is
\* always encoded, a single is handed to struct.pack, which encodes it or
\* raises OverflowError.
FloatsCheckUpperBoundOnly ==
    AddedFloats =>
        /\ raised = "ValueError" <=> AboveFloatMax
        /\ raised \in {"None", "ValueError", "OverflowError"}
        /\ raised = "OverflowError" =>
                /\ call.type = FLOAT32
                /\ \E i \in 1..Len(call.values) :
                        /\ call.values[i].s = 1
                        /\ pack_single(call.values[i]).exc = "OverflowError"
        /\ raised = "None" =>
                LastN(writer.byte_buffer, Len(call.values) * ValueWidth(call.type))
                    = PackedFloats(call.type, call.values)
        /\ raised # "None" => writer = call.before

\* The double -infinity, whose magnitude is above the maximum, was encoded.
FloatsUpperBoundWitness ==
    /\ AddedFloats
    /\ raised = "None"
    /\ call.type = FLOAT64
    /\ call.values = <<FloatList[2], FloatNegated(Infinity)>>

(***************************************************************************)
(* The width and the sign of the integers of each type.                    *)
(***************************************************************************)
NextWidths ==
    \/ Reset
    \/ \E type \in IntegerTypes :
            \E integers \in {IntegerList(type), <<TypeMin(type)>>, <<TypeMax(type), PyInt(1)>>} :
                AddKeyedValues(type, KeyA, InstanceId(type), integers)

SpecWidths == Init /\ [][NextWidths]_vars

\* The bytes the claim gives to a value of each integer type.
BytesOfType(type) ==
    IF type \in {INT8, UINT8} THEN 1
    ELSE IF type \in {INT16, UINT16} THEN 2
    ELSE IF type \in {INT32, UINT32} THEN 4
    ELSE 8

\* The last call was an add_keyed_values_<integer type> that returned.
AddedIntegers == AddReturned /\ call.type \in IntegerTypes

\* C24: for each integer type, the reader decodes the values with the width
\* and the sign the writer encodes them with.  The writer appends
\* count x width bytes of values (1, 2, 4 or 8 bytes each); the match
\* statement of get_keyed_values, given these bytes, the count and the type,
\* returns the integers that were given to the writer, negative ones for the
\* INT types and the ones above the signed maximum for the UINT types, and
\* leaves its cursor count x width bytes further.
IntegersDecodedAsEncoded ==
    AddedIntegers =>
        LET count == Len(call.values)
            size == count * BytesOfType(call.type)
            start == Len(writer.byte_buffer) - size
            decoded == ReadEntryValues([bytes_data |-> writer.byte_buffer], start,
                                       PyInt(count), call.type)
        IN  /\ start = Len(call.before.byte_buffer) + Len(call.key) + 9
            /\ decoded.exc = "None"
            /\ decoded.val[1] = call.values
            /\ decoded.val[2] = start + size

\* The least value of a signed type was encoded and decoded after an entry of
\* an unsigned type with its greatest value.
IntegersDecodedWitness ==
    /\ AddedIntegers
    /\ call.values = <<TypeMin(call.type)>>
    /\ Signed(call.type)
    /\ Len(added) = 2
    /\ ~Signed(added[1].type)

(***************************************************************************)
(* The size of the keys, in the writer, in the header and in the entries.  *)
(***************************************************************************)
\* A key of 255 characters.
KeyLongest == Repeat(65, 255)

NextKeyWidth ==
    \/ Reset
    \/ \E n \in {0, 1, 2, 255, 256} : SetKeysSize(PyInt(n))
    \/ \E type \in {UINT8, FLOAT32},
          key \in {<<>>, KeyA, KeyB, KeyUI, KeyNonAscii, KeyLongest} :
            AddKeyedValues(type, key, InstanceId(type), ValuesOf(type))

SpecKeyWidth == Init /\ [][NextKeyWidth]_vars

\* The entries are in the buffer from pos on, one after the other up to its
\* end, each with a key of key_width bytes.
RECURSIVE KeysEncodedOn(_, _, _, _)
KeysEncodedOn(buffer, pos, entries, key_width) ==
    IF entries = <<>> THEN pos = Len(buffer)
    ELSE /\ Slice(buffer, pos, pos + key_width) = Head(entries).key
         /\ Len(Head(entries).key) = key_width
         /\ KeysEncodedOn(buffer,
                          pos + key_width + 9
                              + Len(Head(entries).values) * ValueWidth(Head(entries).type),
                          Tail(entries), key_width)

\* C25: after any reset, set_keys_size and add_keyed_values_* calls, failed
\* ones included, the size of the keys the writer keeps is in 1..255, is the
\* byte at offset 11 of the header, and is the length of every key the writer
\* has seen and of every key encoded in the buffer.
KeysSizeConsistent ==
    /\ ~IntLess(writer.keys_size, PyInt(1))
    /\ ~IntGreater(writer.keys_size, PyInt(255))
    /\ KeysSizeIn(writer.byte_buffer) = writer.keys_size
    /\ KEYS_SIZE_START = 11
    /\ \A i \in 1..Len(writer.keys) : PyInt(Len(writer.keys[i])) = writer.keys_size
    /\ KeysEncodedOn(writer.byte_buffer, HEADER_SIZE, added, ToNat(writer.keys_size))
    /\ \A i \in 1..Len(added) : \E j \in 1..Len(writer.keys) : writer.keys[j] = added[i].key

\* set_keys_size(256) was refused by a writer whose keys are 255 characters
\* long and that holds an entry.
KeysSizeConsistentWitness ==
    /\ call.op = "set_keys_size"
    /\ call.value = PyInt(256)
    /\ raised = "ValueError"
    /\ writer.keys_size = PyInt(255)
    /\ added # <<>>

(***************************************************************************)
(* Writing a writer more than once.                                        *)
(***************************************************************************)
\* The path may be written MaxWrites + MaxRewrites times.
Rewritable == origin.kind # "foreign" /\ Writes < MaxWrites + MaxRewrites

NextRewrite ==
    \/ SetKeyedValuesNb(PyInt(7))
    \/ \E type \in {UINT8, FLOAT32}, key \in {KeyA, KeyB} :
            AddKeyedValuesCall(type, key, InstanceId(type), ValuesOf(type))
    \/ \E auto_update, add_footer \in BOOLEAN :
            Rewritable /\ WriteCall(auto_update, add_footer)

SpecRewrite == Init /\ [][NextRewrite]_vars

\* The last call was a write that returned.
WriteReturned == call.op = "write" /\ call.at = "returned" /\ raised = "None"

\* The bytes a write of self puts at the path.
WrittenBy(self, add_footer) ==
    self.byte_buffer \o (IF add_footer THEN sha256(self.byte_buffer) ELSE <<>>)

\* The path held what this write puts there: the writer was written before
\* with the same add_footer and nothing changed it since.
WrittenBefore ==
    /\ call.file.exists
    /\ call.file.data = WrittenBy(call.before, call.add_footer)

\* C26: write is repeatable and never stores the digest in the writer.
\* Apart from the entry-count field of the header, a write leaves the buffer,
\* the counter and the seen keys as they were; the file is the buffer
\* followed, with add_footer, by one 32-byte digest of the buffer, so that
\* writing the same writer twice gives the same file and writing after
\* further entries gives all the entries followed by one digest of that body.
WriteRepeatable ==
    WriteReturned =>
        /\ writer.keys = call.before.keys
        /\ writer.keyed_values_nb = call.before.keyed_values_nb
        /\ writer.keys_size = call.before.keys_size
        /\ Len(writer.byte_buffer) = Len(call.before.byte_buffer)
        /\ \A i \in 1..Len(writer.byte_buffer) :
                (i <= KEYED_VALUES_NB_START \/ i > HEADER_SIZE)
                    => writer.byte_buffer[i] = call.before.byte_buffer[i]
        /\ ~call.auto_update => writer = call.before
        /\ file.exists
        /\ file.data = WrittenBy(writer, call.add_footer)
        /\ Len(file.data) = Len(call.before.byte_buffer)
                                + (IF call.add_footer THEN sha256_size ELSE 0)
        /\ EntriesIn(writer.byte_buffer) = EntriesIn(Replay(NewWriter, added).byte_buffer)
        /\ (WrittenBefore /\ writer = call.before) => file = call.file

\* A writer written with its digest, given a second entry and written with
\* its digest again.
WriteRepeatableWitness ==
    /\ WriteReturned
    /\ call.add_footer
    /\ call.file.exists
    /\ Len(added) = 2
    /\ Len(call.file.data) = sha256_size + Len(call.before.byte_buffer)
            - (ToNat(call.before.keys_size) + 9
                + Len(added[2].values) * ValueWidth(added[2].type))

(***************************************************************************)
(* Core.py, the older variant: the integers of its Writer.                 *)
(***************************************************************************)
\* get_uint_max(length); Constants._uint_8_max .. _uint_64_max of Core.py
\* hold the values of uint_8_max .. uint_64_max.  Case 4 returns _uint_64_max.
Core_get_uint_max(length) ==
    IF length = 1 THEN Ok(uint_8_max)
    ELSE IF length = 2 THEN Ok(uint_16_max)
    ELSE IF length = 4 THEN Ok(uint_64_max)
    ELSE IF length = 8 THEN Ok(uint_64_max)
    ELSE Raise("ValueError")

\* Writer.__format_integer(value, length)
Core_format_integer(value, length) ==
    IF IntLess(value, PyInt(0)) THEN Raise("ValueError")
    ELSE Bind(Core_get_uint_max(length), LAMBDA max_value :
         IF IntGreater(value, max_value) THEN Raise("ValueError")
         ELSE to_bytes(value, length, "big", FALSE))

\* Writer.__format_key(key), self.__keys_length being keys_length
Core_format_key(keys_length, key) ==
    IF key = <<>> THEN Raise("ValueError")
    ELSE IF Len(key) # keys_length THEN Raise("ValueError")
    ELSE encode_ascii(key)

\* Constants.KeyedValues: the widths of the fields of a line and the types.
Core_instance_id_length == 4

Core_values_nb_length == 4

Core_values_type_length == 1

Core_Types_all == {0, 1, 2, 3}

\* Writer.__get_keyed_values_header(key, instance_id, values_nb, values_type)
Core_get_keyed_values_header(keys_length, key, instance_id, values_nb, values_type) ==
    IF values_type \notin Core_Types_all THEN Raise("ValueError")
    ELSE Bind(Core_format_key(keys_length, key), LAMBDA k :
         Bind(Core_format_integer(instance_id, Core_instance_id_length), LAMBDA i :
         Bind(Core_format_integer(values_nb, Core_values_nb_length), LAMBDA n :
         Bind(Core_format_integer(PyInt(values_type), Core_values_type_length), LAMBDA t :
         Ok(k \o i \o n \o t)))))

\* 256^k - 2, 256^k - 1, 256^k and 256^k + 1 for k >= 1.
AroundPower(k) ==
    { MkInt(FALSE, <<254>> \o Repeat(255, k - 1)),
      MkInt(FALSE, Repeat(255, k)),
      MkInt(FALSE, Repeat(0, k) \o <<1>>),
      MkInt(FALSE, <<1>> \o Repeat(0, k - 1) \o <<1>>) }

\* The integers given to __format_integer: the neighbours of every unsigned
\* maximum, and values between them.
CoreIntegers ==
    {PyInt(-1), PyInt(0), PyInt(1), PyInt(1000), PyInt(70000)}
        \cup UNION {AroundPower(k) : k \in {1, 2, 3, 4, 5, 8, 9}}

CoreLengths == {1, 2, 3, 4, 8}

\* Writer.__format_integer(value, length) is called.
CoreFormatInteger(value, length) ==
    /\ \E r \in {Core_format_integer(value, length)} :
           /\ result' = r
           /\ raised' = r.exc
    /\ call' = [op |-> "Core.__format_integer", size |-> length, value |-> value]
    /\ UNCHANGED <<writer, file, reader, header, origin, added, opened>>

\* Writer.__get_keyed_values_header(...) is called on a new Writer, whose
\* keys have one character.
CoreGetKeyedValuesHeader(key, instance_id, values_nb, values_type) ==
    /\ \E r \in {Core_get_keyed_values_header(1, key, instance_id, values_nb, values_type)} :
           /\ result' = r
           /\ raised' = r.exc
    /\ call' = [op |-> "Core.__get_keyed_values_header", key |-> key,
                instance_id |-> instance_id, type |-> values_type, count |-> values_nb]
    /\ UNCHANGED <<writer, file, reader, header, origin, added, opened>>

NextCoreIntegers ==
    \/ \E value \in CoreIntegers, length \in CoreLengths :
            CoreFormatInteger(value, length)
    \/ \E key \in {KeyA, KeyUI}, values_type \in {1, 3, 4},
          instance_id, values_nb \in {PyInt(0), PyInt(2)} \cup AroundPower(4) :
            CoreGetKeyedValuesHeader(key, instance_id, values_nb, values_type)

SpecCoreIntegers == Init /\ [][NextCoreIntegers]_vars

\* Whether a value is above 2^(8*length) - 1.
AboveUnsignedMax(value, length) == ~value.neg /\ Len(value.mag) > length

\* C27: in Core.py, Writer.__format_integer raises ValueError for every value
\* above the unsigned maximum of the width, 2^(8*width) - 1 for the widths
\* 1, 2, 4 and 8; an instance_id or a number of values above 2^32 - 1 is
\* refused with ValueError by the test of the bound.
CoreIntegersAboveMaxRefused ==
    /\ (/\ call.op = "Core.__format_integer"
        /\ call.size \in {1, 2, 4, 8}
        /\ AboveUnsignedMax(call.value, call.size))
            => raised = "ValueError"
    /\ (/\ call.op = "Core.__get_keyed_values_header"
        /\ call.type \in Core_Types_all
        /\ call.key = KeyA
        /\ \/ AboveUnsignedMax(call.instance_id, Core_instance_id_length)
           \/ AboveUnsignedMax(call.count, Core_values_nb_length))
            => raised = "ValueError"

(***************************************************************************)
(* The whole system: every step of the writer, of the reader and of what   *)
(* happens to the file between them.                                       *)
(***************************************************************************)
Next ==
    \/ NextRoundTrip
    \/ NextHeader
    \/ NextBounds
    \/ NextKeys
    \/ NextDigest
    \/ NextFooter
    \/ NextTags
    \/ NextDamaged
    \/ NextTruncated
    \/ NextCursor
    \/ NextCount
    \/ NextReset
    \/ NextSetters
    \/ NextKeysSize
    \/ NextRejected
    \/ NextRepeat
    \/ NextByteOrder
    \/ NextAppend
    \/ NextWriteSteps
    \/ NextFloats
    \/ NextWidths
    \/ NextKeyWidth
    \/ NextRewrite
    \/ NextCoreIntegers

Spec == Init /\ [][Next]_vars

=============================================================================
